---- MODULE Spec2Model ----
(***************************************************************************)
(* A model of libapt: the Debian version comparator (version.rs), the      *)
(* dependency atom matcher (package_version.rs), the binary and source     *)
(* index engines (package_index.rs, source_index.rs), the verified fetcher *)
(* (util.rs), the signature verifier (signature.rs) and the release        *)
(* parser (release.rs).                                                    *)
(*                                                                         *)
(* Strings are sequences of one-character strings, <<"1", ".", "0">> for   *)
(* "1.0".  Option<T> is a sequence of length 0 (None) or 1 (Some).  A call *)
(* that panics (assert!, unwrap) has the outcome "Panic".                  *)
(***************************************************************************)
EXTENDS Integers, Sequences, FiniteSets, TLC

VARIABLES
    \* version comparison harness (version.rs)
    va, vb, vc,          \* the version strings handed to Version::from_str
    vpc,                 \* "input" | "compared" | "rejected"
    ordAB, ordBA, ordBC, ordAC,  \* results of Ord::cmp
    \* index engine (package_index.rs, source_index.rs)
    package_map,         \* name -> list of records, as in the struct
    lastGet,             \* the last call of get: its arguments and result
    \* one index build: PackageIndex::new or SourceIndex::new
    indexKind,           \* "package" | "source": which constructor is called
    architecture,        \* the architecture argument (Source for SourceIndex)
    links,               \* release.links: url -> Link
    bpc,                 \* position of the build
    ext,                 \* index into the extensions of get_package_index_link
    step,                \* index into the steps of download_compressed
    selected,            \* Option<Link>: the link get_package_index_link returned
    fetched,             \* Option<bytes>: the body of the GET response
    decoded,             \* "none" | "ok" | "err": decompression / UTF-8 decoding
    dcResult,            \* "None" | "Ok" | "Err": what download_compressed returned
    stanzas,             \* number of stanzas of the text parse_index has looked at
    issues,              \* the issues list of the index
    built,               \* what the constructor returned
    heads,               \* the HEAD requests issued so far, with the answers
    trace,               \* the steps taken so far, in order
    \* one release build: Release::from_distro
    policy,              \* the Key of the Distro
    rpc,                 \* position of the release build
    section,             \* ReleaseSection of the line loop
    nlines,              \* number of lines the loop has looked at
    fields,              \* the fields of the Release that are Some / non-empty
    rlinks,              \* release.links: url -> Link
    refs,                \* the reference lines handled in a hash block, in order
    compliance,          \* what the last check_compliance returned
    released,            \* what from_distro returned
    rtrace,              \* the steps taken so far, in order
    \* one call of a parser: Priority::from_str, parse_package_relation,
    \* Package::from_stanza, Source::from_stanza
    input,               \* the argument of the call
    output,              \* what the call returned
    fpc                  \* "idle" | "called" | "returned"

versionVars == <<va, vb, vc, vpc, ordAB, ordBA, ordBC, ordAC>>
indexVars == <<package_map, lastGet>>

buildVars == <<indexKind, architecture, links, bpc, ext, step, selected, fetched,
               decoded, dcResult, stanzas, issues, built, heads, trace>>

releaseVars == <<policy, rpc, section, nlines, fields, rlinks, refs, compliance,
                 released, rtrace>>

parserVars == <<input, output, fpc>>

vars == <<versionVars, indexVars, buildVars, releaseVars, parserVars>>

None == <<>>
Some(x) == <<x>>

\* ------------------------------------------------------------------------
\* Characters

Digits == {"0", "1", "2", "3", "4", "5", "6", "7", "8", "9"}

\* char::is_ascii_digit
IsDigit(c) == c \in Digits

\* The code point of a character: the order of char's PartialOrd.
Code(c) ==
    CASE c = "+" -> 43 [] c = "-" -> 45 [] c = "." -> 46 [] c = "/" -> 47
      [] c = "0" -> 48 [] c = "1" -> 49 [] c = "2" -> 50 [] c = "3" -> 51
      [] c = "4" -> 52 [] c = "5" -> 53 [] c = "6" -> 54 [] c = "7" -> 55
      [] c = "8" -> 56 [] c = "9" -> 57 [] c = ":" -> 58
      [] c = "a" -> 97 [] c = "b" -> 98 [] c = "u" -> 117 [] c = "~" -> 126

\* str::find(c): the first position of c in s, 0 when there is none.
RECURSIVE FindFrom(_, _, _)
FindFrom(s, c, i) ==
    IF i > Len(s) THEN 0
    ELSE IF s[i] = c THEN i
    ELSE FindFrom(s, c, i + 1)

Find(s, c) == FindFrom(s, c, 1)

\* str::rfind(c): the last position of c in s, 0 when there is none.
RECURSIVE RFindFrom(_, _, _)
RFindFrom(s, c, i) ==
    IF i < 1 THEN 0
    ELSE IF s[i] = c THEN i
    ELSE RFindFrom(s, c, i - 1)

RFind(s, c) == RFindFrom(s, c, Len(s))

\* ------------------------------------------------------------------------
\* Unsigned integer parsing (str::parse::<u8>, str::parse::<u32>).
\* A parsed number is kept as its decimal digits without leading zeros, so
\* that values up to and beyond 2^32 - 1 are exact.

RECURSIVE StripZeros(_)
StripZeros(s) ==
    IF Len(s) > 1 /\ Head(s) = "0" THEN StripZeros(Tail(s)) ELSE s

RECURSIVE LexLess(_, _)
LexLess(x, y) ==
    IF x = <<>> THEN FALSE
    ELSE IF Code(Head(x)) < Code(Head(y)) THEN TRUE
    ELSE IF Code(Head(x)) > Code(Head(y)) THEN FALSE
    ELSE LexLess(Tail(x), Tail(y))

\* x < y as integers, for digit strings without leading zeros.
NumLess(x, y) ==
    \/ Len(x) < Len(y)
    \/ Len(x) = Len(y) /\ LexLess(x, y)

AllDigits(s) == \A i \in 1..Len(s) : IsDigit(s[i])

\* u8::MAX and u32::MAX in decimal.
U8Max == <<"2", "5", "5">>
U32Max == <<"4", "2", "9", "4", "9", "6", "7", "2", "9", "5">>

\* An optional leading '+', then one or more digits, the value at most max.
ParseUnsigned(s, max) ==
    LET body == IF s # <<>> /\ Head(s) = "+" THEN Tail(s) ELSE s
        n == StripZeros(body)
    IN  IF body = <<>> \/ ~AllDigits(body) THEN None
        ELSE IF NumLess(max, n) THEN None
        ELSE Some(n)

ParseU8(s) == ParseUnsigned(s, U8Max)

ParseU32Strict(s) == ParseUnsigned(s, U32Max)

ParseU32(s) == ParseU32Strict(s)

\* ------------------------------------------------------------------------
\* version.rs

\* split_parts: alternating runs of digits and non-digits.
RECURSIVE SplitRec(_, _, _, _)
SplitRec(rest, digit, part, result) ==
    IF rest = <<>> THEN Append(result, part)
    ELSE LET c == Head(rest)
         IN  IF digit = IsDigit(c)
             THEN SplitRec(Tail(rest), digit, Append(part, c), result)
             ELSE SplitRec(Tail(rest), ~digit, <<c>>, Append(result, part))

split_parts(version) ==
    IF version = <<>> THEN <<>>
    ELSE SplitRec(version, IsDigit(version[1]), <<>>, <<>>)

\* A split that takes the revision from the first '-' of the remainder.
from_str_first_dash(s) ==
    LET colon == Find(s, ":")
        epochStr == SubSeq(s, 1, colon - 1)
        rest == IF colon = 0 THEN s ELSE SubSeq(s, colon + 1, Len(s))
        epoch == IF colon = 0 THEN None ELSE ParseU8(epochStr)
        dash == Find(rest, "-")
        upstream == IF dash = 0 THEN rest ELSE SubSeq(rest, 1, dash - 1)
        revision == IF dash = 0 THEN None
                    ELSE Some(SubSeq(rest, dash + 1, Len(rest)))
    IN  IF colon # 0 /\ epoch = None THEN None
        ELSE Some([epoch |-> epoch, version |-> upstream, revision |-> revision])

\* Version::split and Version::from_str: Some(version) or None for Err.
from_str(s) ==
    LET colon == Find(s, ":")
        epochStr == SubSeq(s, 1, colon - 1)
        rest == IF colon = 0 THEN s ELSE SubSeq(s, colon + 1, Len(s))
        epoch == IF colon = 0 THEN None ELSE ParseU8(epochStr)
        dash == RFind(rest, "-")
        upstream == IF dash = 0 THEN rest ELSE SubSeq(rest, 1, dash - 1)
        revision == IF dash = 0 THEN None
                    ELSE Some(SubSeq(rest, dash + 1, Len(rest)))
    IN  IF colon # 0 /\ epoch = None THEN None
        ELSE Some([epoch |-> epoch, version |-> upstream, revision |-> revision])

\* Version::compare_epoch
compare_epoch(self, other) ==
    IF self.epoch = other.epoch THEN "Equal"
    ELSE LET self_epoch == IF self.epoch = None THEN <<"0">> ELSE self.epoch[1]
             other_epoch == IF other.epoch = None THEN <<"0">> ELSE other.epoch[1]
         IN  IF NumLess(other_epoch, self_epoch) THEN "Greater"
             ELSE IF NumLess(self_epoch, other_epoch) THEN "Less"
             ELSE "Panic"

\* The character loop of compare_version_str (lines 233-250) over zip(s, o).
RECURSIVE CompareChars(_, _)
CompareChars(s, o) ==
    IF s = <<>> \/ o = <<>> THEN "Continue"
    ELSE LET sc == Head(s)
             oc == Head(o)
         IN  IF sc = oc THEN CompareChars(Tail(s), Tail(o))
             ELSE IF sc = "~" THEN "Less"
             ELSE IF oc = "~" THEN "Greater"
             ELSE IF Code(sc) < Code(oc) THEN "Less"
             ELSE "Greater"

\* The numbers sn and on of two runs that both parsed (lines 201-211).
CompareNumbers(sn, on) ==
    IF NumLess(sn, on) THEN "Less"
    ELSE IF NumLess(on, sn) THEN "Greater"
    ELSE "Continue"

\* Lines 197-251: s and o are the runs, sn and on what parse::<u32> gave.
CompareParsed(s, o, sn, on) ==
    IF sn # None /\ on = None THEN "Greater"
    ELSE IF sn = None /\ on # None THEN "Less"
    ELSE IF sn # None /\ on # None THEN CompareNumbers(sn[1], on[1])
    ELSE CompareChars(IF Len(s) < Len(o) THEN Append(s, "~") ELSE s,
                      IF Len(o) < Len(s) THEN Append(o, "~") ELSE o)

\* One iteration of the loop over the zipped parts (lines 176-251).
ComparePart(s, o) ==
    IF s = o THEN "Continue"
    ELSE IF s = <<>> THEN "Less"
    ELSE IF o = <<>> THEN "Greater"
    ELSE CompareParsed(s, o, ParseU32(s), ParseU32(o))

\* A decided run ends the loop, an undecided one goes on to the next pair.
Decide(r, next) == IF r = "Continue" THEN next ELSE r

\* The loop over zip(self_parts, other_parts); falling out of it reaches
\* the assert!(false) of line 254.
RECURSIVE CompareParts(_, _)
CompareParts(sp, op) ==
    IF sp = <<>> \/ op = <<>> THEN "Panic"
    ELSE Decide(ComparePart(Head(sp), Head(op)),
                CompareParts(Tail(sp), Tail(op)))

\* Lines 169-173: the shorter run list gets one empty run appended.
PadAndCompare(sp0, op0) ==
    CompareParts(IF Len(sp0) < Len(op0) THEN Append(sp0, <<>>) ELSE sp0,
                 IF Len(sp0) > Len(op0) THEN Append(op0, <<>>) ELSE op0)

\* Version::compare_version_str
compare_version_str(self_version, other_version) ==
    IF self_version = other_version THEN "Equal"
    ELSE PadAndCompare(split_parts(self_version), split_parts(other_version))

\* Version::compare_version
compare_version(self, other) ==
    IF self.version = other.version THEN "Equal"
    ELSE compare_version_str(self.version, other.version)

\* Version::compare_revision
compare_revision(self, other) ==
    IF self.revision = other.revision THEN "Equal"
    ELSE LET self_revision == IF self.revision = None THEN <<>> ELSE self.revision[1]
             other_revision == IF other.revision = None THEN <<>> ELSE other.revision[1]
         IN  compare_version_str(self_revision, other_revision)

\* The first comparison that is not Equal decides.
OrElse(o, next) == IF o # "Equal" THEN o ELSE next

\* impl Ord for Version
cmp(self, other) ==
    IF self = other THEN "Equal"
    ELSE OrElse(compare_epoch(self, other),
                OrElse(compare_version(self, other),
                       compare_revision(self, other)))

\* The harness has not been given anything to compare.
IdleVersion ==
    /\ va = <<>> /\ vb = <<>> /\ vc = <<>>
    /\ vpc = "idle"
    /\ ordAB = "None" /\ ordBA = "None" /\ ordBC = "None" /\ ordAC = "None"

\* ------------------------------------------------------------------------
\* package_version.rs: dependency atoms as version constraints

VersionRelations == {"StrictSmaller", "Smaller", "Exact", "Larger", "StrictLarger"}

\* The orderings a relation accepts for a.cmp(b).
Accepted(relation) ==
    CASE relation = "StrictSmaller" -> {"Less"}
      [] relation = "Smaller" -> {"Less", "Equal"}
      [] relation = "Larger" -> {"Greater", "Equal"}
      [] relation = "StrictLarger" -> {"Greater"}

OrderingAccepted(relation, o) ==
    IF o = "Panic" THEN "Panic"
    ELSE IF o \in Accepted(relation) THEN "True" ELSE "False"

\* VersionRelation::matches(a, b): "True", "False", or "Panic" when the
\* comparison operator panics.  a < b, a <= b, a >= b, a > b go through
\* Ord::cmp; a == b is the structural PartialEq of Version.
RelationMatches(relation, a, b) ==
    IF relation = "Exact" THEN (IF a = b THEN "True" ELSE "False")
    ELSE OrderingAccepted(relation, cmp(a, b))

\* An atom without version that every version satisfies.
PackageVersionMatchesAny(atom, package_version) ==
    IF atom.version # None
    THEN RelationMatches(IF atom.relation # None THEN atom.relation[1] ELSE "Exact",
                         package_version, atom.version[1])
    ELSE "True"

\* PackageVersion::matches(package_version)
PackageVersionMatches(atom, package_version) ==
    IF atom.version # None
    THEN RelationMatches(IF atom.relation # None THEN atom.relation[1] ELSE "Exact",
                         package_version, atom.version[1])
    ELSE "False"

\* ------------------------------------------------------------------------
\* package_index.rs and source_index.rs: the two engines have the same
\* add, get, get_all and package_count; a record is a Package or a Source,
\* ordered by its version (impl Ord for Package, impl Ord for Source).

Panicked == [panic |-> TRUE, list |-> <<>>]
Returned(list) == [panic |-> FALSE, list |-> list]

\* r with x appended, unless r panicked.
ThenAppend(r, x) == IF r.panic THEN r ELSE Returned(Append(r.list, x))

\* [T]::sort on a short slice: stable insertion sort, each element inserted
\* from the right while it is less than its left neighbour.  The result is
\* Panicked when a comparison panics.
RECURSIVE InsertTail(_, _)
InsertStep(sorted, x, o) ==
    IF o = "Panic" THEN Panicked
    ELSE IF o = "Less"
    THEN ThenAppend(InsertTail(SubSeq(sorted, 1, Len(sorted) - 1), x),
                    sorted[Len(sorted)])
    ELSE Returned(Append(sorted, x))

InsertTail(sorted, x) ==
    IF sorted = <<>> THEN Returned(<<x>>)
    ELSE InsertStep(sorted, x, cmp(x.version, sorted[Len(sorted)].version))

RECURSIVE SortFrom(_, _)
SortNext(r, rest) == IF r.panic THEN r ELSE SortFrom(r.list, rest)

SortFrom(sorted, rest) ==
    IF rest = <<>> THEN Returned(sorted)
    ELSE SortNext(InsertTail(sorted, Head(rest)), Tail(rest))

Sort(list) == SortFrom(<<>>, list)

\* The filter chain of get (lines 89-94), evaluated element by element.
FilterStep(p, m, r) ==
    IF m = "Panic" \/ r.panic THEN Panicked
    ELSE IF m = "True" THEN Returned(<<p>> \o r.list)
    ELSE r

RECURSIVE FilterMatching(_, _, _)
FilterMatching(packages, name, rel) ==
    IF packages = <<>> THEN Returned(<<>>)
    ELSE FilterStep(Head(packages),
                    IF name = Head(packages).package
                    THEN PackageVersionMatches(rel, Head(packages).version)
                    ELSE "False",
                    FilterMatching(Tail(packages), name, rel))

NoPackage == [package |-> <<>>, version |-> <<>>]

GetNone == [kind |-> "None", pkg |-> NoPackage]
GetPanic == [kind |-> "Panic", pkg |-> NoPackage]

\* The last element of the sorted list, if any (lines 105-109).
LastOf(packages) ==
    IF packages.panic THEN GetPanic
    ELSE IF packages.list # <<>>
    THEN [kind |-> "Some", pkg |-> packages.list[Len(packages.list)]]
    ELSE GetNone

SortFiltered(filtered) == IF filtered.panic THEN filtered ELSE Sort(filtered.list)

\* PackageIndex::get / SourceIndex::get on the map m
IndexGet(m, name, version) ==
    IF name \in DOMAIN m
    THEN LastOf(SortFiltered(IF version # None
                             THEN FilterMatching(m[name], name, version[1])
                             ELSE Returned(m[name])))
    ELSE GetNone

\* An add that puts the new record in front of the list.
IndexAddFront(m, package) ==
    IF package.package \in DOMAIN m
    THEN [m EXCEPT ![package.package] = <<package>> \o @]
    ELSE [n \in DOMAIN m \cup {package.package} |->
            IF n = package.package THEN <<package>> ELSE m[n]]

\* PackageIndex::add / SourceIndex::add on the map m
IndexAdd(m, package) ==
    IF package.package \in DOMAIN m
    THEN [m EXCEPT ![package.package] = Append(@, package)]
    ELSE [n \in DOMAIN m \cup {package.package} |->
            IF n = package.package THEN <<package>> ELSE m[n]]

\* PackageIndex::get_all / SourceIndex::get_all
IndexGetAll(m, name) == IF name \in DOMAIN m THEN m[name] ELSE <<>>

\* PackageIndex::package_count / SourceIndex::package_count
IndexPackageCount(m) == Cardinality(DOMAIN m)

(***************************************************************************)
(* util.rs, distro.rs, release.rs: URLs, the index link and the verified   *)
(* fetcher.                                                                *)
(***************************************************************************)

\* str::ends_with
EndsWith(s, suffix) ==
    /\ Len(suffix) <= Len(s)
    /\ SubSeq(s, Len(s) - Len(suffix) + 1, Len(s)) = suffix

\* str::starts_with
StartsWith(s, prefix) ==
    /\ Len(prefix) <= Len(s)
    /\ SubSeq(s, 1, Len(prefix)) = prefix

\* join_url: one '/' between base and path, "./" is ignored.
join_url(base, path) ==
    (IF EndsWith(base, <<"/">>) THEN base ELSE Append(base, "/"))
    \o (IF path = <<".", "/">> THEN <<>>
        ELSE IF StartsWith(path, <<"/">>) THEN Tail(path)
        ELSE path)

\* Distro::url; a distro with neither name nor path fails the assert!.
DistroUrl(distro, path, package) ==
    IF package THEN Some(join_url(distro.url, path))
    ELSE IF distro.name # None
         THEN Some(join_url(distro.url,
                            join_url(<<"d", "i", "s", "t", "s", "/">> \o distro.name[1], path)))
    ELSE IF distro.path # None
         THEN Some(join_url(distro.url, join_url(distro.path[1], path)))
    ELSE None

\* Display for Architecture (the variants without a payload).
ArchString(arch) ==
    CASE arch = "All"     -> <<"a", "l", "l">>
      [] arch = "Amd64"   -> <<"a", "m", "d", "6", "4">>
      [] arch = "Arm64"   -> <<"a", "r", "m", "6", "4">>
      [] arch = "Armhf"   -> <<"a", "r", "m", "h", "f">>
      [] arch = "I386"    -> <<"i", "3", "8", "6">>
      [] arch = "Ppc64el" -> <<"p", "p", "c", "6", "4", "e", "l">>
      [] arch = "Riscv64" -> <<"r", "i", "s", "c", "v", "6", "4">>
      [] arch = "S390x"   -> <<"s", "3", "9", "0", "x">>
      [] arch = "Source"  -> <<"s", "o", "u", "r", "c", "e">>
      [] arch = "Any"     -> <<"a", "n", "y">>
      [] arch = "X32"     -> <<"x", "3", "2">>

\* The path of the index below the release directory.
IndexPath(component, arch) ==
    IF arch = "Source"
    THEN component \o <<"/", "s", "o", "u", "r", "c", "e", "/", "S", "o", "u", "r", "c", "e", "s">>
    ELSE component \o <<"/", "b", "i", "n", "a", "r", "y", "-">> \o ArchString(arch)
                   \o <<"/", "P", "a", "c", "k", "a", "g", "e", "s">>

\* A different order of the same extensions.
ExtensionsPlainFirst == << <<>>, <<".", "g", "z">>, <<".", "x", "z">> >>

\* The compression extensions get_package_index_link tries, in its order.
extensions == << <<".", "x", "z">>, <<".", "g", "z">>, <<>> >>

\* The URL get_package_index_link looks up for the i-th extension.
package_index(distro, component, arch, i) ==
    DistroUrl(distro, IndexPath(component, arch), FALSE)[1] \o extensions[i]

\* LinkHash
HashKinds == {"Md5", "Sha1", "Sha256", "Sha512"}

\* The bodies a GET may deliver: the published file or something else.
Blobs == {"genuine", "other"}

\* The digest of a body, printed with {:x}: lower-case hex digits.  Two
\* digits stand for the whole digest: one for the algorithm, one for the body.
Digest(kind, bytes) ==
    << CASE kind = "Md5" -> "a" [] kind = "Sha1" -> "b"
         [] kind = "Sha256" -> "c" [] kind = "Sha512" -> "d",
       CASE bytes = "genuine" -> "e" [] bytes = "other" -> "f" >>

UpperLetters ==
    <<"A", "B", "C", "D", "E", "F", "G", "H", "I", "J", "K", "L", "M",
      "N", "O", "P", "Q", "R", "S", "T", "U", "V", "W", "X", "Y", "Z">>

LowerLetters ==
    <<"a", "b", "c", "d", "e", "f", "g", "h", "i", "j", "k", "l", "m",
      "n", "o", "p", "q", "r", "s", "t", "u", "v", "w", "x", "y", "z">>

\* The position of c in the alphabet letters, 0 if it is not in it.
LetterIndex(letters, c) ==
    IF \E i \in 1..Len(letters) : letters[i] = c
    THEN CHOOSE i \in 1..Len(letters) : letters[i] = c
    ELSE 0

MapLetter(from, to, c, i) == IF i = 0 THEN c ELSE to[i]

\* char::to_lowercase
LowerChar(c) == MapLetter(UpperLetters, LowerLetters, c, LetterIndex(UpperLetters, c))

\* str::to_lowercase
to_lowercase(s) == [i \in 1..Len(s) |-> LowerChar(s[i])]

\* char::to_uppercase, for texts printed in upper case.
UpperChar(c) == MapLetter(LowerLetters, UpperLetters, c, LetterIndex(LowerLetters, c))

to_uppercase(s) == [i \in 1..Len(s) |-> UpperChar(s[i])]

\* The weakest digest first.
HashOrderWeakestFirst == <<"Md5", "Sha1", "Sha256", "Sha512">>

\* The order in which verify_hash looks for a declared digest.
HashOrder == <<"Sha512", "Sha256", "Sha1", "Md5">>

\* The first kind of HashOrder, from position i on, the link declares.
RECURSIVE FirstDeclared(_, _)
FirstDeclared(hashes, i) ==
    IF i > Len(HashOrder) THEN None
    ELSE IF HashOrder[i] \in DOMAIN hashes THEN Some(HashOrder[i])
    ELSE FirstDeclared(hashes, i + 1)

\* The comparison of verify_hash once the digest kind is chosen.
HashMatches(declared, kind, content) ==
    to_lowercase(declared) = Digest(kind, content)

\* verify_hash: TRUE for Ok(()), FALSE for Err.
VerifyWith(hashes, chosen, content) ==
    IF chosen = None THEN FALSE
    ELSE HashMatches(hashes[chosen[1]], chosen[1], content)

verify_hash(content, link) ==
    VerifyWith(link.hashes, FirstDeclared(link.hashes, 1), content)

\* Steps in which the digest check comes after the decoding.
StepsDecodeFirst(url) ==
    IF EndsWith(url, <<".", "x", "z">>) THEN <<"bytes", "lzma", "verify_hash">>
    ELSE IF EndsWith(url, <<".", "g", "z">>) THEN <<"bytes", "gzip", "verify_hash">>
    ELSE <<"bytes", "utf8", "verify_hash">>

\* The fallible steps of download_compressed after the request was sent,
\* for the branch the URL's suffix selects.
BranchSteps(url) ==
    IF EndsWith(url, <<".", "x", "z">>) THEN <<"bytes", "verify_hash", "lzma">>
    ELSE IF EndsWith(url, <<".", "g", "z">>) THEN <<"bytes", "verify_hash", "gzip">>
    ELSE <<"bytes", "verify_hash", "utf8">>

Decoders == {"lzma", "gzip", "utf8"}

\* Result values of the constructors.
Pending == [kind |-> "None", error |-> ""]
Ok == [kind |-> "Ok", error |-> ""]
Err(type) == [kind |-> "Err", error |-> type]

\* A call that ended in a panic.
Unwound == [kind |-> "Panic", error |-> ""]

NoLinks == [u \in {} |-> <<>>]

IdleBuild ==
    /\ indexKind = "none"
    /\ architecture = "none"
    /\ links = NoLinks
    /\ bpc = "idle"
    /\ ext = 0
    /\ step = 0
    /\ selected = None
    /\ fetched = None
    /\ decoded = "none"
    /\ dcResult = "None"
    /\ stanzas = 0
    /\ issues = <<>>
    /\ built = Pending
    /\ heads = <<>>
    /\ trace = <<>>

IdleRelease ==
    /\ policy = "none"
    /\ rpc = "idle"
    /\ section = "Keywords"
    /\ nlines = 0
    /\ fields = {}
    /\ rlinks = NoLinks
    /\ refs = <<>>
    /\ compliance = Pending
    /\ released = Pending
    /\ rtrace = <<>>

IdleParser ==
    /\ input = <<>>
    /\ output = <<>>
    /\ fpc = "idle"

\* The inputs of the index engine.
MaxRecords == 3

PackageNames == {<<"p">>, <<"q">>}

IndexVersions == {<<"1">>, <<"2">>, <<"0", ":", "1">>, <<"1", ":", "1">>}

\* The dependency atoms handed to get; the atom's own name is a package name.
Atoms ==
    [name : {<<"p">>},
     version : {None} \cup {Some(from_str(v)[1]) : v \in IndexVersions},
     relation : {None} \cup {Some(r) : r \in VersionRelations}]

EmptyMap == [n \in {} |-> <<>>]

NoGet == [called |-> FALSE, name |-> <<>>, version |-> None, result |-> GetNone]

IdleIndex ==
    /\ package_map = EmptyMap
    /\ lastGet = NoGet

\* The number of records stored in the map m.
RECURSIVE CountRecords(_, _)
CountRecords(m, names) ==
    IF names = {} THEN 0
    ELSE LET n == CHOOSE x \in names : TRUE
         IN  Len(m[n]) + CountRecords(m, names \ {n})

StoredRecords == CountRecords(package_map, DOMAIN package_map)

InitIndex ==
    /\ IdleVersion
    /\ IdleIndex
    /\ IdleBuild
    /\ IdleRelease
    /\ IdleParser

\* A parsed record is added (parse_index line 62 after from_stanza).
Add ==
    /\ StoredRecords < MaxRecords
    /\ \E name \in PackageNames, v \in IndexVersions :
          package_map' = IndexAdd(package_map,
                                  [package |-> name, version |-> from_str(v)[1]])
    /\ lastGet' = NoGet
    /\ UNCHANGED <<versionVars, buildVars, releaseVars, parserVars>>

\* get(name, version) is called; the index itself is not written.  The
\* call leaves the index as it found it, so a get that follows a get
\* gives the state it gives after the add before them: the calls are
\* taken from the states in which none is recorded.
Get ==
    /\ ~lastGet.called
    /\ \E name \in PackageNames, version \in {None} \cup {Some(a) : a \in Atoms} :
          lastGet' = [called |-> TRUE, name |-> name, version |-> version,
                      result |-> IndexGet(package_map, name, version)]
    /\ UNCHANGED package_map
    /\ UNCHANGED <<versionVars, buildVars, releaseVars, parserVars>>

NextIndex == Add \/ Get

SpecIndex == InitIndex /\ [][NextIndex]_vars

\* ------------------------------------------------------------------------
\* Claims about the index engine

\* The stored records under the name of the last get that qualify: all of
\* them without a relation, those matching it otherwise.
Qualifying ==
    LET stored == IndexGetAll(package_map, lastGet.name)
    IN  {stored[i] : i \in {j \in 1..Len(stored) :
            \/ lastGet.version = None
            \/ /\ lastGet.version # None
               /\ PackageVersionMatches(lastGet.version[1], stored[j].version) = "True"}}

\* C9: get returns a qualifying record whose version is the maximum of the
\* qualifying records, and nothing exactly when no stored record qualifies.
C9_GetReturnsMaximum ==
    lastGet.called =>
        /\ lastGet.result.kind \in {"None", "Some"}
        /\ lastGet.result.kind = "None" <=> Qualifying = {}
        /\ lastGet.result.kind = "Some" =>
              /\ lastGet.result.pkg \in Qualifying
              /\ \A r \in Qualifying :
                    cmp(r.version, lastGet.result.pkg.version) \in {"Less", "Equal"}

\* ------------------------------------------------------------------------
\* The comparison harness: Version::from_str on each input, then Ord::cmp on
\* the pairs (a, b), (b, a), (b, c) and (a, c).

MaxLen == 3

\* All strings over alphabet of length at most n.
Strings(alphabet, n) == UNION {[1..k -> alphabet] : k \in 0..n}

VersionAlphabet == {"~", "a", "0", "1", ":", "-"}

\* u32::MAX + 1 in decimal: the shortest digit run parse::<u32> rejects.
U32Overflow == <<"4", "2", "9", "4", "9", "6", "7", "2", "9", "6">>

VersionInputs == Strings(VersionAlphabet, MaxLen) \cup {U32Max, U32Overflow}

OrderAlphabet == {"~", "a", "1", "2"}

OrderInputs == Strings(OrderAlphabet, MaxLen)

Orderings == {"Less", "Equal", "Greater"}

\* Ordering::reverse
Reverse(o) ==
    CASE o = "Less" -> "Greater" [] o = "Greater" -> "Less" [] o = "Equal" -> "Equal"
      [] OTHER -> "None"

InitVersionPair ==
    /\ IdleIndex
    /\ IdleBuild
    /\ IdleRelease
    /\ IdleParser
    /\ va \in VersionInputs
    /\ vb \in VersionInputs
    /\ vc = <<>>
    /\ vpc = "input"
    /\ ordAB = "None" /\ ordBA = "None" /\ ordBC = "None" /\ ordAC = "None"

InitVersionTriple ==
    /\ IdleIndex
    /\ IdleBuild
    /\ IdleRelease
    /\ IdleParser
    /\ va \in OrderInputs
    /\ vb \in OrderInputs
    /\ vc \in OrderInputs
    /\ vpc = "input"
    /\ ordAB = "None" /\ ordBA = "None" /\ ordBC = "None" /\ ordAC = "None"

\* Version::from_str returned Err for one of the inputs.
Reject ==
    /\ vpc = "input"
    /\ \E s \in {va, vb, vc} : from_str(s) = None
    /\ vpc' = "rejected"
    /\ UNCHANGED <<va, vb, vc, ordAB, ordBA, ordBC, ordAC>>
    /\ UNCHANGED <<indexVars, buildVars, releaseVars, parserVars>>

Compare ==
    /\ vpc = "input"
    /\ \A s \in {va, vb, vc} : from_str(s) # None
    /\ LET a == from_str(va)[1]
           b == from_str(vb)[1]
           c == from_str(vc)[1]
       IN  /\ ordAB' = cmp(a, b)
           /\ ordBA' = cmp(b, a)
           /\ ordBC' = cmp(b, c)
           /\ ordAC' = cmp(a, c)
    /\ vpc' = "compared"
    /\ UNCHANGED <<va, vb, vc>>
    /\ UNCHANGED <<indexVars, buildVars, releaseVars, parserVars>>

NextVersion == Reject \/ Compare

SpecVersion == InitVersionPair /\ [][NextVersion]_vars

SpecOrder == InitVersionTriple /\ [][Compare]_vars

\* ------------------------------------------------------------------------
\* Claims about Version ordering

\* A version string without epoch and revision: its upstream is the whole
\* string, so Ord::cmp is compare_version_str on the two strings.
IsPlain(s) == Find(s, ":") = 0 /\ Find(s, "-") = 0

IsPrefix(p, s) == Len(p) <= Len(s) /\ SubSeq(s, 1, Len(p)) = p

\* C4: for versions a and b produced by Version::from_str, a.cmp(b) is an
\* ordering and b.cmp(a) is its reverse; a.cmp(a) is Equal.
C4_CmpAntisymmetric ==
    vpc = "compared" =>
        /\ ordAB \in Orderings
        /\ ordBA = Reverse(ordAB)
        /\ (va = vb => ordAB = "Equal")

\* C5: comparison is transitive: a < b and b < c imply a < c.
C5_CmpTransitive ==
    (vpc = "compared" /\ ordAB = "Less" /\ ordBC = "Less") => ordAC = "Less"

\* C5: a cycle a < b < c < a of three versions, none of the comparisons
\* panicking.
C5_CycleReached ==
    vpc = "compared" /\ ordAB = "Less" /\ ordBC = "Less" /\ ordAC = "Greater"

\* C6: an epoch-less version v compares with every w as '0:' + v does.
C6_EpochlessAsZero ==
    (vpc = "compared" /\ Find(va, ":") = 0) =>
        ordAB = cmp(from_str(<<"0", ":">> \o va)[1], from_str(vb)[1])

\* C7: in the comparison of upstream strings, x followed by '~' and any
\* suffix is less than x, and x is less than x followed by any suffix that
\* does not start with '~'.  Here vb is x and va is x with the suffix.
C7_TildeBeforeEnd ==
    (/\ vpc = "compared" /\ IsPlain(va) /\ IsPlain(vb)
     /\ IsPrefix(vb, va) /\ Len(vb) < Len(va)) =>
        /\ ordAB = (IF va[Len(vb) + 1] = "~" THEN "Less" ELSE "Greater")
        /\ ordBA = (IF va[Len(vb) + 1] = "~" THEN "Greater" ELSE "Less")

\* The index of the first pair of aligned runs that differ, 0 if none.
RECURSIVE FirstDiff(_, _, _)
FirstDiff(sp, op, i) ==
    IF i > Len(sp) \/ i > Len(op) THEN 0
    ELSE IF sp[i] # op[i] THEN i
    ELSE FirstDiff(sp, op, i + 1)

IsDigitRun(s) == s # <<>> /\ AllDigits(s)

\* C8: when the first differing pair of aligned runs are both digit runs,
\* the strings are ordered by the integer value of those runs, whatever the
\* length of the runs and with or without leading zeros.
C8_DigitRunsByValue ==
    (vpc = "compared" /\ IsPlain(va) /\ IsPlain(vb)) =>
        LET sp == split_parts(va)
            op == split_parts(vb)
            i == FirstDiff(sp, op, 1)
        IN  (i # 0 /\ IsDigitRun(sp[i]) /\ IsDigitRun(op[i])) =>
                LET x == StripZeros(sp[i])
                    y == StripZeros(op[i])
                IN  /\ NumLess(x, y) => ordAB = "Less"
                    /\ NumLess(y, x) => ordAB = "Greater"

(***************************************************************************)
(* One index build: PackageIndex::new / SourceIndex::new, with             *)
(* get_package_index_link, download_compressed and parse_index as steps.   *)
(***************************************************************************)
MaxStanzas == 2

\* Distro::repo("h", "j"): a named distribution below the root "h".
TheDistro == [url |-> <<"h">>, name |-> Some(<<"j">>), path |-> None]

Component == <<"m">>

\* What the server may answer to the HEAD request of get_etag.
HeadAnswers == {"ok", "error_status", "no_etag"}

\* get_etag: Ok only for a success status with an ETag header.
get_etag(answer) == answer = "ok"

\* The digests a release file may declare for a kind.
DeclaredValues(kind) ==
    {Digest(kind, b) : b \in Blobs} \cup {to_uppercase(Digest(kind, "genuine"))}

HashTables ==
    UNION {{h \in [K -> UNION {DeclaredValues(k) : k \in HashKinds}] :
               \A k \in K : h[k] \in DeclaredValues(k)} : K \in SUBSET HashKinds}

\* The index URLs a release file may list for the architecture.
ListedUrls(arch) ==
    {package_index(TheDistro, Component, arch, i) : i \in 1..Len(extensions)}

\* What a stanza of the index text turns out to be.
StanzaOutcomes ==
    {[kind |-> "empty"], [kind |-> "bad"], [kind |-> "panic"]}
    \cup {[kind |-> "record", package |-> n, version |-> from_str(<<"1">>)[1]] :
             n \in PackageNames}

InitBuild ==
    /\ IdleVersion
    /\ IdleIndex
    /\ IdleRelease
    /\ IdleParser
    /\ indexKind \in {"package", "source"}
    /\ architecture \in (IF indexKind = "source" THEN {"Source"} ELSE {"Amd64", "Source"})
    /\ \E present \in SUBSET ListedUrls(architecture), h \in HashTables :
          links = [u \in present |-> [url |-> u, size |-> 0, hashes |-> h]]
    /\ bpc = "new"
    /\ ext = 0
    /\ step = 0
    /\ selected = None
    /\ fetched = None
    /\ decoded = "none"
    /\ dcResult = "None"
    /\ stanzas = 0
    /\ issues = <<>>
    /\ built = Pending
    /\ heads = <<>>
    /\ trace = <<>>

\* A constructor without the architecture test.
NewIndexUnchecked ==
    /\ bpc = "new"
    /\ built' = built
    /\ bpc' = "select"
    /\ ext' = 1
    /\ trace' = Append(trace, "new")
    /\ UNCHANGED <<indexKind, architecture, links, step, selected, fetched, decoded,
                   dcResult, stanzas, issues, heads>>
    /\ UNCHANGED <<versionVars, indexVars, releaseVars, parserVars>>

\* PackageIndex::new refuses the source architecture before anything else;
\* otherwise the constructor goes on to get_package_index_link.
NewIndex ==
    /\ bpc = "new"
    /\ IF indexKind = "package" /\ architecture = "Source"
       THEN /\ built' = Err("ApiUsage")
            /\ bpc' = "done"
            /\ ext' = ext
       ELSE /\ built' = built
            /\ bpc' = "select"
            /\ ext' = 1
    /\ trace' = Append(trace, "new")
    /\ UNCHANGED <<indexKind, architecture, links, step, selected, fetched, decoded,
                   dcResult, stanzas, issues, heads>>
    /\ UNCHANGED <<versionVars, indexVars, releaseVars, parserVars>>

\* The HEAD request for a link found in release.links and its consequence.
Probe(link, answer) ==
    /\ heads' = Append(heads, [url |-> link.url, answer |-> answer])
    /\ IF get_etag(answer)
       THEN /\ selected' = Some(link)
            /\ bpc' = "send"
            /\ ext' = ext
       ELSE /\ selected' = selected
            /\ bpc' = bpc
            /\ ext' = ext + 1

\* One iteration of the loop over the extensions for the URL url.
TryLink(url) ==
    IF url \in DOMAIN links
    THEN \E answer \in HeadAnswers : Probe(links[url], answer)
    ELSE /\ ext' = ext + 1
         /\ UNCHANGED <<heads, selected, bpc>>

TryExtension ==
    /\ bpc = "select"
    /\ ext <= Len(extensions)
    /\ TryLink(package_index(TheDistro, Component, architecture, ext))
    /\ trace' = Append(trace, "lookup")
    /\ UNCHANGED <<indexKind, architecture, links, step, fetched, decoded, dcResult,
                   stanzas, issues, built>>
    /\ UNCHANGED <<versionVars, indexVars, releaseVars, parserVars>>

\* The loop ended without a link: the error is passed on by the constructor.
NoLink ==
    /\ bpc = "select"
    /\ ext > Len(extensions)
    /\ built' = Err("DownloadFailure")
    /\ bpc' = "done"
    /\ trace' = Append(trace, "no_link")
    /\ UNCHANGED <<indexKind, architecture, links, ext, step, selected, fetched, decoded,
                   dcResult, stanzas, issues, heads>>
    /\ UNCHANGED <<versionVars, indexVars, releaseVars, parserVars>>

\* download_compressed returns Err through one of its ? operators, and
\* parse_index and the constructor pass the error on.
DcFail ==
    /\ dcResult' = "Err"
    /\ built' = Err("Download")
    /\ bpc' = "done"
    /\ step' = step

\* The current step succeeded: on to the next one, or Ok(text).
DcAdvance(steps) ==
    /\ built' = built
    /\ IF step = Len(steps)
       THEN /\ dcResult' = "Ok"
            /\ bpc' = "parse"
            /\ step' = step
       ELSE /\ dcResult' = dcResult
            /\ bpc' = bpc
            /\ step' = step + 1

StepDone(ok) == IF ok THEN DcAdvance(BranchSteps(selected[1].url)) ELSE DcFail

\* client.get(url).send(): any status is a response, only transport fails.
Send ==
    /\ bpc = "send"
    /\ \E ok \in BOOLEAN :
          IF ok
          THEN /\ bpc' = "steps"
               /\ step' = 1
               /\ UNCHANGED <<dcResult, built>>
          ELSE DcFail
    /\ trace' = Append(trace, "send")
    /\ UNCHANGED <<indexKind, architecture, links, ext, selected, fetched, decoded,
                   stanzas, issues, heads>>
    /\ UNCHANGED <<versionVars, indexVars, releaseVars, parserVars>>

CurrentStep == BranchSteps(selected[1].url)[step]

\* result.bytes(): the body, or a transport error.
Bytes ==
    /\ bpc = "steps"
    /\ CurrentStep = "bytes"
    /\ \E r \in {None} \cup {Some(b) : b \in Blobs} :
          /\ fetched' = r
          /\ StepDone(r # None)
    /\ trace' = Append(trace, "bytes")
    /\ UNCHANGED <<indexKind, architecture, links, ext, selected, decoded,
                   stanzas, issues, heads>>
    /\ UNCHANGED <<versionVars, indexVars, releaseVars, parserVars>>

Verified(ok) ==
    /\ StepDone(ok)
    /\ trace' = Append(trace, IF ok THEN "verify_ok" ELSE "verify_err")

\* verify_hash(&data, link)?
VerifyHash ==
    /\ bpc = "steps"
    /\ CurrentStep = "verify_hash"
    /\ Verified(verify_hash(fetched[1], selected[1]))
    /\ UNCHANGED <<indexKind, architecture, links, ext, selected, fetched, decoded,
                   stanzas, issues, heads>>
    /\ UNCHANGED <<versionVars, indexVars, releaseVars, parserVars>>

\* lzma::decompress, GzDecoder::read_to_string or String::from_utf8: each
\* fails on bytes that are not what the suffix promises.
Decode ==
    /\ bpc = "steps"
    /\ CurrentStep \in Decoders
    /\ \E ok \in BOOLEAN :
          /\ decoded' = (IF ok THEN "ok" ELSE "err")
          /\ StepDone(ok)
    /\ trace' = Append(trace, CurrentStep)
    /\ UNCHANGED <<indexKind, architecture, links, ext, selected, fetched,
                   stanzas, issues, heads>>
    /\ UNCHANGED <<versionVars, indexVars, releaseVars, parserVars>>

\* One turn of the loop of parse_index over content.split("\n\n"): an
\* empty stanza is skipped; from_stanza returns a record, which is added,
\* or an error, which is pushed to the issues, or it panics and the
\* constructor unwinds.
Stanza(st) ==
    CASE st.kind = "empty"  -> UNCHANGED <<package_map, issues, built, bpc>>
      [] st.kind = "bad"    -> /\ issues' = Append(issues, IF indexKind = "source"
                                                           THEN "SourceFormat"
                                                           ELSE "PackageFormat")
                               /\ UNCHANGED <<package_map, built, bpc>>
      [] st.kind = "record" -> /\ package_map' = IndexAdd(package_map,
                                     [package |-> st.package, version |-> st.version])
                               /\ UNCHANGED <<issues, built, bpc>>
      [] st.kind = "panic"  -> /\ built' = Unwound
                               /\ bpc' = "done"
                               /\ UNCHANGED <<package_map, issues>>

ParseStanza ==
    /\ bpc = "parse"
    /\ stanzas < MaxStanzas
    /\ \E st \in StanzaOutcomes :
          /\ Stanza(st)
          /\ trace' = Append(trace, IF st.kind = "empty" THEN "blank" ELSE "stanza")
    /\ stanzas' = stanzas + 1
    /\ UNCHANGED <<indexKind, architecture, links, ext, step, selected, fetched,
                   decoded, dcResult, heads, lastGet>>
    /\ UNCHANGED <<versionVars, releaseVars, parserVars>>

\* The text is exhausted: the constructor returns the index.
Finish ==
    /\ bpc = "parse"
    /\ built' = Ok
    /\ bpc' = "done"
    /\ trace' = Append(trace, "return")
    /\ UNCHANGED <<indexKind, architecture, links, ext, step, selected, fetched, decoded,
                   dcResult, stanzas, issues, heads>>
    /\ UNCHANGED <<versionVars, indexVars, releaseVars, parserVars>>

Next ==
    \/ NewIndex
    \/ TryExtension
    \/ NoLink
    \/ Send
    \/ Bytes
    \/ VerifyHash
    \/ Decode
    \/ ParseStanza
    \/ Finish

Spec == InitBuild /\ [][Next]_vars

(***************************************************************************)
(* Properties of the index build.                                          *)
(***************************************************************************)

\* How strong a digest kind is.
Strength(kind) ==
    CASE kind = "Md5" -> 1 [] kind = "Sha1" -> 2 [] kind = "Sha256" -> 3 [] kind = "Sha512" -> 4

\* The strongest digest the link declares equals, in lower case, the digest
\* of the bytes; FALSE when the link declares none.
StrongestDigestMatches(link, bytes) ==
    /\ DOMAIN link.hashes # {}
    /\ \E k \in DOMAIN link.hashes :
          /\ \A j \in DOMAIN link.hashes : Strength(j) <= Strength(k)
          /\ to_lowercase(link.hashes[k]) = Digest(k, bytes)

RECURSIVE FirstAt(_, _)
FirstAt(e, i) ==
    IF i > Len(trace) THEN 0
    ELSE IF trace[i] = e THEN i
    ELSE FirstAt(e, i + 1)

Happened(e) == FirstAt(e, 1) # 0

\* C3: in an index build the digest of the fetched bytes is verified before
\* any decompression and before any stanza is parsed, whatever the suffix;
\* when the verification fails nothing is decoded, no stanza is parsed, no
\* record is added and the build returns an error.
C3_VerifyBeforeDecodeAndParse ==
    /\ \A i \in 1..Len(trace) :
          trace[i] \in Decoders \cup {"blank", "stanza", "return"} =>
              /\ Happened("verify_ok")
              /\ FirstAt("verify_ok", 1) < i
    /\ (package_map # EmptyMap \/ issues # <<>> \/ stanzas > 0) => Happened("verify_ok")
    /\ Happened("verify_err") =>
          /\ decoded = "none"
          /\ stanzas = 0
          /\ package_map = EmptyMap
          /\ issues = <<>>
          /\ bpc = "done"
          /\ built.kind = "Err"

\* C3 witness: the verification of a fetched .gz index failed and the
\* build ended with the error.
C3_VerificationFailed ==
    /\ Happened("verify_err")
    /\ EndsWith(selected[1].url, <<".", "g", "z">>)
    /\ fetched # None
    /\ built = Err("Download")

\* The index URL without suffix, written out: dists/<name> below the root,
\* then <component>/source/Sources or <component>/binary-<arch>/Packages.
ExpectedIndexUrl ==
    IF architecture = "Source"
    THEN <<"h", "/", "d", "i", "s", "t", "s", "/", "j", "/", "m", "/",
           "s", "o", "u", "r", "c", "e", "/", "S", "o", "u", "r", "c", "e", "s">>
    ELSE <<"h", "/", "d", "i", "s", "t", "s", "/", "j", "/", "m", "/",
           "b", "i", "n", "a", "r", "y", "-", "a", "m", "d", "6", "4", "/",
           "P", "a", "c", "k", "a", "g", "e", "s">>

ExpectedCandidates ==
    << ExpectedIndexUrl \o <<".", "x", "z">>,
       ExpectedIndexUrl \o <<".", "g", "z">>,
       ExpectedIndexUrl >>

\* The candidate does not qualify: not listed, or its HEAD gave no ETag.
Disqualified(url) ==
    \/ url \notin DOMAIN links
    \/ \E i \in 1..Len(heads) : heads[i].url = url /\ heads[i].answer # "ok"

\* C10: get_package_index_link returns the Link of the first candidate, in
\* the order .xz, .gz, no suffix, that is a key of release.links and whose
\* HEAD succeeded with an ETag; listed candidates whose HEAD fails are
\* skipped; the call fails with a download error exactly when no candidate
\* qualifies, and a URL that is not in release.links is never returned.
C10_FirstQualifyingCandidate ==
    /\ selected # None =>
          \E i \in 1..3 :
              /\ ExpectedCandidates[i] \in DOMAIN links
              /\ selected[1] = links[ExpectedCandidates[i]]
              /\ selected[1].url \in DOMAIN links
              /\ heads[Len(heads)] = [url |-> ExpectedCandidates[i], answer |-> "ok"]
              /\ \A j \in 1..(i - 1) : Disqualified(ExpectedCandidates[j])
    /\ built = Err("DownloadFailure") <=>
          /\ bpc = "done"
          /\ selected = None
          /\ built # Err("ApiUsage")
    /\ built = Err("DownloadFailure") =>
          \A i \in 1..3 : Disqualified(ExpectedCandidates[i])
    /\ (bpc \notin {"new", "select"} /\ built # Err("ApiUsage")) =>
          (selected # None \/ built = Err("DownloadFailure"))
    /\ \A i \in 1..Len(heads) : heads[i].url \in DOMAIN links

\* C10 witness: the .xz candidate is listed but its HEAD failed, and the
\* .gz candidate was returned.
C10_SkippedToGz ==
    /\ selected # None
    /\ selected[1].url = ExpectedCandidates[2]
    /\ ExpectedCandidates[1] \in DOMAIN links
    /\ Len(heads) = 2
    /\ heads[1].answer # "ok"

(***************************************************************************)
(* One release build: Release::from_distro with verify_in_release.         *)
(***************************************************************************)
MaxLines == 4

KeyPolicies == {"ArmoredKey", "Key", "NoSignatureCheck"}

Paths == {<<"x">>, <<"/", "x">>, <<"y">>}

\* The hash sections of ReleaseSection and the LinkHash each stands for.
HashSections == {"HashMD5", "HashSHA1", "HashSHA256", "HashSHA512"}

SectionHash(s) ==
    CASE s = "HashMD5" -> "Md5" [] s = "HashSHA1" -> "Sha1"
      [] s = "HashSHA256" -> "Sha256" [] s = "HashSHA512" -> "Sha512"

\* The fields of the release file the model follows: Origin stands for the
\* scalar fields nothing depends on.
FieldKeys == {"origin", "suite", "codename", "date", "architectures", "components"}

\* The fields whose value may leave the Release field None or empty: a date
\* that parse_from_rfc2822 rejects, a Components line without a name.
MayBeEmpty == {"date", "components"}

Sizes == {1, 2}

\* The lines of a release text, by what the parser tests on them: blank,
\* starting with "---" (the signature boundary or another PGP frame), or a
\* plain line, indented or not, that is a known field, a hash block header,
\* an unknown keyword, a "HEX SIZE PATH" reference, three tokens whose
\* second is not a number, or anything else without a colon.
PlainBodies ==
    {[body |-> "unknown"], [body |-> "garbage"], [body |-> "badsize"]}
    \cup {[body |-> "field", key |-> k, valued |-> TRUE] : k \in FieldKeys}
    \cup {[body |-> "field", key |-> k, valued |-> FALSE] : k \in MayBeEmpty}
    \cup {[body |-> "hash_header", section |-> s] : s \in HashSections}
    \cup {[body |-> "reference", path |-> p, size |-> n, digest |-> <<"d">>] :
             p \in Paths, n \in Sizes}

LineKinds ==
    {[kind |-> "blank"], [kind |-> "signature"], [kind |-> "frame"]}
    \cup {[kind |-> "plain", indented |-> i, content |-> b] :
             i \in BOOLEAN, b \in PlainBodies}

\* line.contains(":")
HasColon(content) == content.body \in {"field", "unknown", "hash_header"}

InitRelease ==
    /\ IdleVersion
    /\ IdleIndex
    /\ IdleBuild
    /\ IdleParser
    /\ policy \in KeyPolicies
    /\ rpc = "download"
    /\ section = "Keywords"
    /\ nlines = 0
    /\ fields = {}
    /\ rlinks = NoLinks
    /\ refs = <<>>
    /\ compliance = Pending
    /\ released = Pending
    /\ rtrace = <<>>

\* from_distro returns the error of one of its ? operators.
ReleaseFail(type, event) ==
    /\ released' = Err(type)
    /\ rpc' = "done"
    /\ rtrace' = Append(rtrace, event)

ReleaseStep(next, event) ==
    /\ released' = released
    /\ rpc' = next
    /\ rtrace' = Append(rtrace, event)

\* download(&url)
DownloadInRelease ==
    /\ rpc = "download"
    /\ \E ok \in BOOLEAN :
          IF ok THEN ReleaseStep("key", "downloaded")
          ELSE ReleaseFail("Download", "download_failed")
    /\ UNCHANGED <<policy, section, nlines, fields, rlinks, refs, compliance>>
    /\ UNCHANGED <<versionVars, indexVars, buildVars, parserVars>>

\* _get_key up to the loaded key: no key under NoSignatureCheck, in which
\* case verify_in_release returns the content as it is.
GetKey ==
    /\ rpc = "key"
    /\ IF policy = "NoSignatureCheck"
       THEN ReleaseStep("lines", "no_key")
       ELSE \E ok \in BOOLEAN :
               IF ok THEN ReleaseStep("key_verify", "key_loaded")
               ELSE ReleaseFail("Verification", "key_load_failed")
    /\ UNCHANGED <<policy, section, nlines, fields, rlinks, refs, compliance>>
    /\ UNCHANGED <<versionVars, indexVars, buildVars, parserVars>>

\* key.verify(): the self-signature of the public key.
VerifyKey ==
    /\ rpc = "key_verify"
    /\ \E ok \in BOOLEAN :
          IF ok THEN ReleaseStep("message", "key_verified")
          ELSE ReleaseFail("Verification", "key_verify_failed")
    /\ UNCHANGED <<policy, section, nlines, fields, rlinks, refs, compliance>>
    /\ UNCHANGED <<versionVars, indexVars, buildVars, parserVars>>

\* CleartextSignedMessage::from_string(&content).unwrap()
ParseMessage ==
    /\ rpc = "message"
    /\ \E wellformed \in BOOLEAN :
          IF wellformed THEN ReleaseStep("signature", "message_parsed")
          ELSE /\ released' = [kind |-> "Panic", error |-> ""]
               /\ rpc' = "done"
               /\ rtrace' = Append(rtrace, "malformed")
    /\ UNCHANGED <<policy, section, nlines, fields, rlinks, refs, compliance>>
    /\ UNCHANGED <<versionVars, indexVars, buildVars, parserVars>>

\* inrelease.verify(&key)
VerifySignature ==
    /\ rpc = "signature"
    /\ \E ok \in BOOLEAN :
          IF ok THEN ReleaseStep("lines", "signature_verified")
          ELSE ReleaseFail("Verification", "signature_failed")
    /\ UNCHANGED <<policy, section, nlines, fields, rlinks, refs, compliance>>
    /\ UNCHANGED <<versionVars, indexVars, buildVars, parserVars>>

\* HashMap::insert
Put(f, k, v) == [x \in DOMAIN f \cup {k} |-> IF x = k THEN v ELSE f[x]]

\* Link::form_release: the URL of the path below the release directory,
\* the declared size, no hashes.
form_release(ref) ==
    [url |-> DistroUrl(TheDistro, ref.path, FALSE)[1], size |-> ref.size, hashes |-> NoLinks]

\* A link that takes the size of every line.
add_hash_resizing(link, ref, hash_type) ==
    [link EXCEPT !.size = ref.size, !.hashes = Put(link.hashes, hash_type, ref.digest)]

\* Link::add_hash: a size that differs is a warning; the hash is recorded.
add_hash(link, ref, hash_type) ==
    [link EXCEPT !.hashes = Put(link.hashes, hash_type, ref.digest)]

\* An insert that replaces the link of a URL seen before.
InsertAlways(links_, link) == Put(links_, link.url, link)

\* release.links.insert unless the key is there already.
InsertNew(links_, link) ==
    IF link.url \in DOMAIN links_ THEN links_ ELSE Put(links_, link.url, link)

\* get_mut(&url).unwrap() and add_hash on the link found.
UpdateLink(links_, url, ref, hash_type) ==
    Put(links_, url, add_hash(links_[url], ref, hash_type))

\* A reference line of a hash block: the link is created on first sight
\* and gains the block's digest.
AddReference(ref, link, hash_type) ==
    /\ rlinks' = UpdateLink(InsertNew(rlinks, link), link.url, ref, hash_type)
    /\ refs' = Append(refs, [path |-> ref.path, size |-> ref.size, hash |-> hash_type])
    /\ UNCHANGED <<section, fields>>
    /\ ReleaseStep("lines", "line")

\* The assignment of a known field: Date and Components may be assigned
\* None or an empty list, the other fields become Some or non-empty.
SetField(f, content) ==
    IF content.valued THEN f \cup {content.key} ELSE f \ {content.key}

\* The keyword of a line with a colon: the text before the colon in lower
\* case and untrimmed, so that the keyword of an indented line is none of
\* the known ones.
Keyword(line) ==
    IF line.indented THEN "unknown" ELSE line.content.body

\* A parser that trims the keyword before it is compared.
KeywordLineTrimmed(line) ==
    IF ~HasColon(line.content)
    THEN /\ ReleaseFail("InvalidReleaseFormat", "line")
         /\ section' = "Keywords"
         /\ UNCHANGED <<fields, rlinks, refs>>
    ELSE /\ section' = (IF line.content.body = "hash_header" THEN line.content.section
                        ELSE "Keywords")
         /\ fields' = (IF line.content.body = "field" THEN SetField(fields, line.content)
                       ELSE fields)
         /\ UNCHANGED <<rlinks, refs>>
         /\ ReleaseStep("lines", "line")

\* A line handled in the Keywords section.
KeywordLine(line) ==
    IF ~HasColon(line.content)
    THEN /\ ReleaseFail("InvalidReleaseFormat", "line")
         /\ section' = "Keywords"
         /\ UNCHANGED <<fields, rlinks, refs>>
    ELSE /\ section' = (IF Keyword(line) = "hash_header" THEN line.content.section
                        ELSE "Keywords")
         /\ fields' = (IF Keyword(line) = "field" THEN SetField(fields, line.content)
                       ELSE fields)
         /\ UNCHANGED <<rlinks, refs>>
         /\ ReleaseStep("lines", "line")

\* A line handled in a hash section.
HashLine(content, current) ==
    IF content.body = "reference"
    THEN AddReference(content, form_release(content), SectionHash(current))
    ELSE /\ ReleaseFail("InvalidPackageMeta", "line")
         /\ UNCHANGED <<section, fields, rlinks, refs>>

\* A parser in which only a keyword line ends a hash block.
PlainLineSticky(line) ==
    IF section = "Keywords"
    THEN KeywordLine(line)
    ELSE HashLine(line.content, section)

\* A line that is neither blank nor a PGP frame: a line that is not
\* indented ends the hash block.
PlainLine(line) ==
    IF ~line.indented \/ section = "Keywords"
    THEN KeywordLine(line)
    ELSE HashLine(line.content, section)

\* One turn of the loop over content.lines().
Line(line) ==
    CASE line.kind = "blank" ->
            /\ ReleaseStep("lines", "line")
            /\ UNCHANGED <<section, fields, rlinks, refs>>
      [] line.kind = "frame" ->
            /\ ReleaseStep("lines", "line")
            /\ UNCHANGED <<section, fields, rlinks, refs>>
      [] line.kind = "signature" ->
            /\ released' = Ok
            /\ rpc' = "done"
            /\ rtrace' = Append(rtrace, "line")
            /\ UNCHANGED <<section, fields, rlinks, refs>>
      [] line.kind = "plain" -> PlainLine(line)

ReadLine ==
    /\ rpc = "lines"
    /\ nlines < MaxLines
    /\ \E line \in LineKinds : Line(line)
    /\ nlines' = nlines + 1
    /\ UNCHANGED <<policy, compliance>>
    /\ UNCHANGED <<versionVars, indexVars, buildVars, parserVars>>

\* The text has no more lines: Ok(release).
EndOfText ==
    /\ rpc = "lines"
    /\ released' = Ok
    /\ rpc' = "done"
    /\ rtrace' = Append(rtrace, "return")
    /\ UNCHANGED <<policy, section, nlines, fields, rlinks, refs, compliance>>
    /\ UNCHANGED <<versionVars, indexVars, buildVars, parserVars>>

\* The Err of check_compliance; the message tells the predicates apart.
ComplianceErr(message) ==
    [kind |-> "Err", error |-> "InvalidReleaseFormat", message |-> message]

ComplianceOk == [kind |-> "Ok", error |-> "", message |-> ""]

\* The loop over the links of check_compliance.
AllHaveSha256(links_) == \A key \in DOMAIN links_ : "Sha256" \in DOMAIN links_[key].hashes

\* A check that is content with any digest.
check_compliance_any_digest(f, links_) ==
    IF "components" \notin f THEN ComplianceErr("components")
    ELSE IF "architectures" \notin f THEN ComplianceErr("architectures")
    ELSE IF "suite" \notin f /\ "codename" \notin f THEN ComplianceErr("suite_codename")
    ELSE IF "date" \notin f THEN ComplianceErr("date")
    ELSE IF \E key \in DOMAIN links_ : DOMAIN links_[key].hashes = {}
         THEN ComplianceErr("sha256")
    ELSE ComplianceOk

\* Release::check_compliance on a release with the populated fields f.
check_compliance(f, links_) ==
    IF "components" \notin f THEN ComplianceErr("components")
    ELSE IF "architectures" \notin f THEN ComplianceErr("architectures")
    ELSE IF "suite" \notin f /\ "codename" \notin f THEN ComplianceErr("suite_codename")
    ELSE IF "date" \notin f THEN ComplianceErr("date")
    ELSE IF ~AllHaveSha256(links_) THEN ComplianceErr("sha256")
    ELSE ComplianceOk

\* check_compliance(&self) is called on a Release that from_distro returned.
CheckCompliance ==
    /\ rpc = "done"
    /\ released = Ok
    /\ compliance' = check_compliance(fields, rlinks)
    /\ UNCHANGED <<policy, rpc, section, nlines, fields, rlinks, refs, released, rtrace>>
    /\ UNCHANGED <<versionVars, indexVars, buildVars, parserVars>>

NextRelease ==
    \/ DownloadInRelease
    \/ GetKey
    \/ VerifyKey
    \/ ParseMessage
    \/ VerifySignature
    \/ ReadLine
    \/ EndOfText
    \/ CheckCompliance

SpecRelease == InitRelease /\ [][NextRelease]_vars

\* The position of the first occurrence of event e in rtrace, 0 if none.
RECURSIVE ReleaseFirstAt(_, _)
ReleaseFirstAt(e, i) ==
    IF i > Len(rtrace) THEN 0
    ELSE IF rtrace[i] = e THEN i
    ELSE ReleaseFirstAt(e, i + 1)

ReleaseFailures == {"key_load_failed", "key_verify_failed", "malformed", "signature_failed"}

\* C2: under a key policy other than NoSignatureCheck no line of the
\* release document is parsed before the key's self-signature check and
\* then the cleartext signature check have succeeded, in that order; when
\* the key cannot be loaded, a check fails or the document is not a
\* well-formed cleartext-signed message, from_distro returns an error value
\* and no Release.
C2_VerifiedBeforeParsing ==
    policy # "NoSignatureCheck" =>
        /\ ReleaseFirstAt("line", 1) # 0 =>
              /\ ReleaseFirstAt("key_verified", 1) # 0
              /\ ReleaseFirstAt("key_verified", 1) < ReleaseFirstAt("signature_verified", 1)
              /\ ReleaseFirstAt("signature_verified", 1) < ReleaseFirstAt("line", 1)
        /\ (\E i \in 1..Len(rtrace) : rtrace[i] \in ReleaseFailures) =>
              /\ released.kind = "Err"
              /\ ReleaseFirstAt("line", 1) = 0
              /\ fields = {}
              /\ rlinks = NoLinks

\* C2: the document was not a cleartext-signed message and from_distro
\* panicked instead of returning.
C2_MalformedPanics ==
    /\ policy # "NoSignatureCheck"
    /\ ReleaseFirstAt("malformed", 1) # 0
    /\ released.kind = "Panic"

\* The URL of a path of the release file, written out: dists/<name>/ below
\* the root, a leading '/' of the path dropped.
ExpectedUrl(path) ==
    <<"h", "/", "d", "i", "s", "t", "s", "/", "j", "/">>
    \o (IF Head(path) = "/" THEN Tail(path) ELSE path)

\* The reference lines handled so far that name the URL u.
RefsOf(u) == {i \in 1..Len(refs) : ExpectedUrl(refs[i].path) = u}

\* C12: release.links holds exactly one Link for each path referenced by a
\* hash-block line, keyed by the absolute URL that is also the Link's url;
\* the Link of a path listed in several hash blocks holds a hash for every
\* kind whose block listed it, in whatever order the blocks appear.
C12_OneLinkPerReferencedPath ==
    /\ DOMAIN rlinks = {ExpectedUrl(refs[i].path) : i \in 1..Len(refs)}
    /\ \A u \in DOMAIN rlinks :
          /\ rlinks[u].url = u
          /\ DOMAIN rlinks[u].hashes = {refs[i].hash : i \in RefsOf(u)}

\* C12 witness: from_distro returned a Release after a path was listed in
\* the SHA256 block first and in the MD5Sum block after it.
C12_ListedInTwoBlocks ==
    /\ rpc = "done"
    /\ released = Ok
    /\ Len(refs) = 2
    /\ refs[1].path = refs[2].path
    /\ refs[1].hash = "Sha256"
    /\ refs[2].hash = "Md5"

(***************************************************************************)
(* check_compliance on any Release.                                        *)
(***************************************************************************)

\* The hash maps a Link may hold.
HashMaps == UNION {[K -> {<<"d">>}] : K \in SUBSET HashKinds}

\* The link maps of the releases handed to check_compliance.
ReleaseLinkMaps ==
    UNION {{[u \in {form_release([path |-> p, size |-> 1]).url : p \in P} |->
                [url |-> u, size |-> 1, hashes |-> h[u]]] :
              h \in [{form_release([path |-> p, size |-> 1]).url : p \in P} -> HashMaps]} :
           P \in SUBSET {<<"x">>, <<"y">>}}

InitCompliance ==
    /\ IdleVersion
    /\ IdleIndex
    /\ IdleBuild
    /\ IdleParser
    /\ policy = "NoSignatureCheck"
    /\ rpc = "done"
    /\ section = "Keywords"
    /\ nlines = 0
    /\ fields \in SUBSET FieldKeys
    /\ rlinks \in ReleaseLinkMaps
    /\ refs = <<>>
    /\ compliance = Pending
    /\ released = Ok
    /\ rtrace = <<>>

SpecCompliance == InitCompliance /\ [][CheckCompliance]_vars

\* The first predicate of the compliance list the release violates.
FirstViolation ==
    IF "components" \notin fields THEN "components"
    ELSE IF "architectures" \notin fields THEN "architectures"
    ELSE IF {"suite", "codename"} \cap fields = {} THEN "suite_codename"
    ELSE IF "date" \notin fields THEN "date"
    ELSE IF \E u \in DOMAIN rlinks : "Sha256" \notin DOMAIN rlinks[u].hashes THEN "sha256"
    ELSE ""

\* C11: check_compliance succeeds exactly when components and architectures
\* are non-empty, suite or codename is present, date is present and every
\* link has a SHA256 digest; otherwise it returns the error of the first
\* violated predicate in that order; it never modifies the Release.
C11_ComplianceIffAllPredicates ==
    /\ [](compliance # Pending =>
             /\ compliance.kind = "Ok" <=> FirstViolation = ""
             /\ compliance.kind = "Err" <=> FirstViolation # ""
             /\ compliance.kind = "Err" =>
                   /\ compliance.error = "InvalidReleaseFormat"
                   /\ compliance.message = FirstViolation)
    /\ [][compliance' # compliance => UNCHANGED <<fields, rlinks, released>>]_vars

\* C11 witness: everything but the SHA256 digest of one link is in place,
\* and the check has returned the error for it.
C11_MissingSha256Reported ==
    /\ compliance.kind = "Err"
    /\ compliance.message = "sha256"
    /\ \E u \in DOMAIN rlinks : DOMAIN rlinks[u].hashes = {"Md5", "Sha1", "Sha512"}

(***************************************************************************)
(* types/priority.rs: Priority::from_str.                                  *)
(***************************************************************************)

\* char::is_whitespace for the characters of the inputs
Whitespace == {" ", "\n", "\t"}

RECURSIVE trim_start(_)
trim_start(s) ==
    IF s # <<>> /\ Head(s) \in Whitespace THEN trim_start(Tail(s)) ELSE s

RECURSIVE trim_end(_)
trim_end(s) ==
    IF s # <<>> /\ s[Len(s)] \in Whitespace THEN trim_end(SubSeq(s, 1, Len(s) - 1)) ELSE s

\* str::trim
trim(s) == trim_end(trim_start(s))

\* Ok(value)
OkOf(value) == [kind |-> "Ok", value |-> value]

\* The chain of comparisons of Priority::from_str on the lowered, trimmed text.
PriorityOf(priority) ==
    IF priority = <<"r", "e", "q", "u", "i", "r", "e", "d">> THEN OkOf("Required")
    ELSE IF priority = <<"m", "p", "o", "r", "t", "a", "n", "t">> THEN OkOf("Important")
    ELSE IF priority = <<"s", "t", "a", "n", "d", "a", "r", "d">> THEN OkOf("Standard")
    ELSE IF priority = <<"o", "p", "t", "i", "o", "n", "a", "l">> THEN OkOf("Optional")
    ELSE IF priority = <<"e", "x", "t", "r", "a">> THEN OkOf("Extra")
    ELSE Err("UnknownPriority")

\* Priority::from_str
PriorityFromStr(priority) == PriorityOf(trim(to_lowercase(priority)))

\* The names Debian policy gives the priorities, and the variant of each.
PriorityNames ==
    {<<"r", "e", "q", "u", "i", "r", "e", "d">>,
     <<"i", "m", "p", "o", "r", "t", "a", "n", "t">>,
     <<"s", "t", "a", "n", "d", "a", "r", "d">>,
     <<"o", "p", "t", "i", "o", "n", "a", "l">>,
     <<"e", "x", "t", "r", "a">>}

PriorityVariant(name) ==
    CASE name = <<"r", "e", "q", "u", "i", "r", "e", "d">> -> "Required"
      [] name = <<"i", "m", "p", "o", "r", "t", "a", "n", "t">> -> "Important"
      [] name = <<"s", "t", "a", "n", "d", "a", "r", "d">> -> "Standard"
      [] name = <<"o", "p", "t", "i", "o", "n", "a", "l">> -> "Optional"
      [] name = <<"e", "x", "t", "r", "a">> -> "Extra"

\* Texts around a word: the word, with blanks around it, in upper case,
\* capitalised, with a letter more or a letter less.
Around(w) ==
    {w, <<" ">> \o w, w \o <<" ">>, <<" ">> \o w \o <<"\n">>, to_uppercase(w),
     <<UpperChar(Head(w))>> \o Tail(w), w \o <<"x">>, <<"x">> \o w, Tail(w),
     SubSeq(w, 1, Len(w) - 1), <<Head(w)>> \o <<" ">> \o Tail(w)}

PriorityInputs ==
    UNION {Around(w) : w \in PriorityNames} \cup {<<>>, <<" ">>, <<"x">>, <<"h", "i", "g", "h">>}

InitPriority ==
    /\ IdleVersion
    /\ IdleIndex
    /\ IdleBuild
    /\ IdleRelease
    /\ input \in PriorityInputs
    /\ output = <<>>
    /\ fpc = "called"

\* Priority::from_str(input) returns.
CallPriority ==
    /\ fpc = "called"
    /\ output' = PriorityFromStr(input)
    /\ fpc' = "returned"
    /\ UNCHANGED input
    /\ UNCHANGED <<versionVars, indexVars, buildVars, releaseVars>>

SpecPriority == InitPriority /\ [][CallPriority]_vars

\* C18: Priority::from_str accepts exactly the names required, important,
\* standard, optional and extra, trimmed and in any case, maps each to the
\* variant of its name, and returns UnknownPriority for any other text.
C18_ExactlyFiveNames ==
    fpc = "returned" =>
        IF trim(to_lowercase(input)) \in PriorityNames
        THEN output = OkOf(PriorityVariant(trim(to_lowercase(input))))
        ELSE output = Err("UnknownPriority")

\* C18: the name important was rejected.
C18_ImportantRejected ==
    /\ fpc = "returned"
    /\ input = <<"i", "m", "p", "o", "r", "t", "a", "n", "t">>
    /\ output = Err("UnknownPriority")

(***************************************************************************)
(* package_version.rs, util.rs: the parser of dependency fields.           *)
(***************************************************************************)

\* &s[i - 1..]
SliceFrom(s, i) == SubSeq(s, i, Len(s))

\* str::split on a character
RECURSIVE SplitBy(_, _)
SplitAt(s, c, p) ==
    IF p = 0 THEN <<s>>
    ELSE <<SubSeq(s, 1, p - 1)>> \o SplitBy(SliceFrom(s, p + 1), c)

SplitBy(s, c) == SplitAt(s, c, Find(s, c))

\* An Architecture: a variant without payload, or Other(text).
Known(variant) == [variant |-> variant, text |-> <<>>]

ArchitectureNamed(arch) ==
    CASE arch = <<"a", "m", "d", "6", "4">> -> Known("Amd64")
      [] arch = <<"a", "r", "m", "6", "4">> -> Known("Arm64")
      [] arch = <<"a", "r", "m", "h", "f">> -> Known("Armhf")
      [] arch = <<"i", "3", "8", "6">> -> Known("I386")
      [] arch = <<"p", "p", "c", "6", "4", "e", "l">> -> Known("Ppc64el")
      [] arch = <<"r", "i", "s", "c", "v", "6", "4">> -> Known("Riscv64")
      [] arch = <<"s", "3", "9", "0", "x">> -> Known("S390x")
      [] arch = <<"a", "l", "l">> -> Known("All")
      [] arch = <<"s", "o", "u", "r", "c", "e">> -> Known("Source")
      [] arch = <<"a", "n", "y">> -> Known("Any")
      [] arch = <<"x", "3", "2">> -> Known("X32")
      [] OTHER -> [variant |-> "Other", text |-> arch]

\* The text Architecture::from_str compares: lowered, without "linux-", trimmed.
StripLinux(arch) ==
    IF StartsWith(arch, <<"l", "i", "n", "u", "x", "-">>) THEN trim(SliceFrom(arch, 7)) ELSE trim(arch)

\* Architecture::from_str: never an error.
ArchitectureFromStr(arch) == ArchitectureNamed(StripLinux(to_lowercase(arch)))

RelationNamed(relation) ==
    IF relation = <<">", ">">> THEN OkOf("StrictLarger")
    ELSE IF relation = <<">", "=">> THEN OkOf("Larger")
    ELSE IF relation = <<"=">> THEN OkOf("Exact")
    ELSE IF relation = <<"<", "=">> THEN OkOf("Smaller")
    ELSE IF relation = <<"<", "<">> THEN OkOf("StrictSmaller")
    ELSE Err("UnknownVersionRelation")

\* VersionRelation::from_str
VersionRelationFromStr(relation) == RelationNamed(trim(to_lowercase(relation)))

\* The outcome of a call that panics.
PanicResult == [kind |-> "Panic"]

\* PackageVersion { name, architecture, relation, version }
Atom(name, arch, relation, version) ==
    [name |-> name, architecture |-> arch, relation |-> relation, version |-> version]

\* single_form_str, "Generate results": one atom per architecture, one
\* without architecture when there is none.
Expand(name, architectures, relation, version) ==
    IF architectures = <<>>
    THEN OkOf(<<Atom(name, None, relation, version)>>)
    ELSE OkOf([i \in 1..Len(architectures) |->
                  Atom(name, Some(architectures[i]), relation, version)])

\* Version::from_str(..)? inside the parentheses; v is its outcome.
WithVersion(name, architectures, relation, v) ==
    IF v = None THEN Err("VerificationError")
    ELSE Expand(name, architectures, relation, Some(v[1]))

\* VersionRelation::from_str(..)? and then the version.
WithRelation(name, architectures, rel, vtext) ==
    IF rel.kind = "Err" THEN rel
    ELSE WithVersion(name, architectures, Some(rel.value), from_str(vtext))

\* The text vr between the parentheses, pos the position of its first blank.
Constraint(name, architectures, vr, pos) ==
    IF pos = 0 THEN WithVersion(name, architectures, None, from_str(vr))
    ELSE WithRelation(name, architectures, VersionRelationFromStr(SubSeq(vr, 1, pos - 1)),
                      SliceFrom(vr, pos + 1))

ConstraintOf(name, architectures, vr) == Constraint(name, architectures, vr, Find(vr, " "))

\* "Check for version relation": start and end are the positions of the
\* first '(' and the first ')'; &desc[start + 1..end] panics when ')' comes
\* first.
ParseConstraint(name, architectures, desc, start, end) ==
    IF start = 0 \/ end = 0 THEN Expand(name, architectures, None, None)
    ELSE IF end < start THEN PanicResult
    ELSE ConstraintOf(name, architectures, SubSeq(desc, start + 1, end - 1))

MapArchitectures(pieces) == [i \in 1..Len(pieces) |-> ArchitectureFromStr(pieces[i])]

\* "Check for architecture list": the slice panics when ']' comes first.
ArchList(architectures, desc, start, end) ==
    IF start = 0 \/ end = 0 THEN OkOf(architectures)
    ELSE IF end < start THEN PanicResult
    ELSE OkOf(architectures
              \o MapArchitectures(SplitBy(SubSeq(desc, start + 1, end - 1), " ")))

AfterArchList(name, r, desc) ==
    IF r.kind = "Panic" THEN r
    ELSE ParseConstraint(name, r.value, desc, Find(desc, "("), Find(desc, ")"))

\* The name is known; desc is what follows the first blank.
Described(name, architectures, desc) ==
    AfterArchList(name, ArchList(architectures, desc, Find(desc, "["), Find(desc, "]")), desc)

\* The text before the first blank, q the position of its ':'.
Qualified(name, q, desc) ==
    IF q = 0 THEN Described(name, <<>>, desc)
    ELSE Described(SubSeq(name, 1, q - 1),
                   <<ArchitectureFromStr(SliceFrom(name, q + 1))>>, desc)

\* "Get the package name": p is the position of the first blank; without
\* a blank the whole text is the name.
SplitName(desc, p) ==
    IF p = 0 THEN Described(trim(desc), <<>>, <<>>)
    ELSE Qualified(SubSeq(desc, 1, p - 1), Find(SubSeq(desc, 1, p - 1), ":"),
                   SliceFrom(desc, p + 1))

\* PackageVersion::single_form_str
single_form_str(desc) == SplitName(desc, Find(desc, " "))

\* collect() into a Result and flatten(): the atoms of all pieces in order,
\* or the first Err or panic.
RECURSIVE Alternatives(_, _)
AlternativeNext(r, rest, acc) ==
    IF r.kind # "Ok" THEN r ELSE Alternatives(rest, acc \o r.value)

Alternatives(pieces, acc) ==
    IF pieces = <<>> THEN OkOf(acc)
    ELSE AlternativeNext(single_form_str(trim(Head(pieces))), Tail(pieces), acc)

\* PackageVersion::from_str
PackageVersionFromStr(desc) == Alternatives(SplitBy(trim(desc), "|"), <<>>)

RECURSIVE Relations(_, _)
RelationNext(r, rest, acc) ==
    IF r.kind # "Ok" THEN r ELSE Relations(rest, acc \o r.value)

Relations(pieces, acc) ==
    IF pieces = <<>> THEN OkOf(acc)
    ELSE RelationNext(PackageVersionFromStr(trim(Head(pieces))), Tail(pieces), acc)

\* parse_package_relation
parse_package_relation(depends) == Relations(SplitBy(depends, ","), <<>>)

\* The dependency alternatives of the grammar
\*   NAME [':' ARCH] [' (' [REL ' '] VER ')'] [' [' ARCH (' ' ARCH)* ']']
\* by their parts: a qualifier or none, a constraint or none, a list of
\* architectures that may be empty.
Shapes ==
    [name : {<<"a">>},
     qualifier : {None, Some(<<"a", "n", "y">>), Some(<<"a", "m", "d", "6", "4">>)},
     constraint : {None,
                   Some([rel |-> <<">", "=">>, ver |-> <<"1">>]),
                   Some([rel |-> <<"<", "<">>, ver |-> <<"1", ":", "2", "-", "3">>]),
                   Some([rel |-> <<>>, ver |-> <<"1">>])},
     archs : {<<>>, <<<<"a", "m", "d", "6", "4">>>>, <<<<"i", "3", "8", "6">>, <<"a", "r", "m", "6", "4">>>>}]

QualifierText(q) == IF q = None THEN <<>> ELSE <<":">> \o q[1]

ConstraintText(c) ==
    IF c = None THEN <<>>
    ELSE IF c[1].rel = <<>> THEN <<" ", "(">> \o c[1].ver \o <<")">>
    ELSE <<" ", "(">> \o c[1].rel \o <<" ">> \o c[1].ver \o <<")">>

RECURSIVE JoinBlank(_)
JoinBlank(words) ==
    IF Len(words) = 1 THEN Head(words)
    ELSE Head(words) \o <<" ">> \o JoinBlank(Tail(words))

ListText(archs) ==
    IF archs = <<>> THEN <<>> ELSE <<" ", "[">> \o JoinBlank(archs) \o <<"]">>

\* The text of a shape.
Compose(shape) ==
    shape.name \o QualifierText(shape.qualifier) \o ConstraintText(shape.constraint)
    \o ListText(shape.archs)

SimpleAlternatives ==
    {<<"a">>,
     <<"b">>,
     <<"b", " ", "(", ">", "=", " ", "1", ")">>,
     <<"a", ":", "a", "n", "y", " ", "(", "=", " ", "1", ")">>}

Separators == {<<" ", "|", " ">>, <<",", " ">>, <<"|">>, <<",">>}

\* Texts outside the grammar.
OddTexts ==
    {<<>>,
     <<"a", " ", ")", "(">>,
     <<"a", " ", "]", "[">>,
     <<"a", " ", "(", "~", " ", "1", ")">>,
     <<"a", " ", "(", ">", "=", " ", "x", ":", "1", ")">>,
     <<"a", " ", "(", ">", "=", " ", "1">>,
     <<"a", " ", "[", "a", "m", "d", "6", "4">>,
     <<"a", " ", "|", " ", "b", " ", ")", "(">>,
     <<"a", ",", " ", "b", " ", "(", "~", " ", "1", ")">>,
     <<"a", " ", "(", "1", ")">>,
     <<" ", "a">>,
     <<" ", "a", " ">>}

DependencyInputs ==
    {Compose(shape) : shape \in Shapes}
    \cup {x \o sep \o y : x \in SimpleAlternatives, y \in SimpleAlternatives, sep \in Separators}
    \cup OddTexts

InitDepends ==
    /\ IdleVersion
    /\ IdleIndex
    /\ IdleBuild
    /\ IdleRelease
    /\ input \in DependencyInputs
    /\ output = <<>>
    /\ fpc = "called"

\* parse_package_relation(input) returns or panics.
CallRelation ==
    /\ fpc = "called"
    /\ output' = parse_package_relation(input)
    /\ fpc' = "returned"
    /\ UNCHANGED input
    /\ UNCHANGED <<versionVars, indexVars, buildVars, releaseVars>>

SpecDepends == InitDepends /\ [][CallRelation]_vars

\* The relation a relation text of a shape stands for.
RelationVariant(rel) ==
    CASE rel = <<">", "=">> -> Some("Larger")
      [] rel = <<"<", "<">> -> Some("StrictSmaller")
      [] rel = <<>> -> None

\* The architectures a shape names: the qualifier first, then the list.
NamedArchitectures(shape) ==
    (IF shape.qualifier = None THEN <<>> ELSE <<shape.qualifier[1]>>) \o shape.archs

ExpectedRelation(shape) ==
    IF shape.constraint = None THEN None ELSE RelationVariant(shape.constraint[1].rel)

ExpectedVersion(shape) ==
    IF shape.constraint = None THEN None ELSE from_str(shape.constraint[1].ver)

\* The atoms the grammar gives a shape: one per named architecture, one
\* without architecture when none is named, the name without qualifier.
ExpectedAtoms(shape) ==
    IF NamedArchitectures(shape) = <<>>
    THEN <<Atom(shape.name, None, ExpectedRelation(shape), ExpectedVersion(shape))>>
    ELSE [i \in 1..Len(NamedArchitectures(shape)) |->
             Atom(shape.name, Some(ArchitectureFromStr(NamedArchitectures(shape)[i])),
                  ExpectedRelation(shape), ExpectedVersion(shape))]

\* C19: one dependency alternative yields one atom per architecture named
\* by the qualified name or the bracketed list, all with the same name,
\* relation and version, and one atom without architecture when none is
\* named; the name never contains the ':arch' qualifier, whatever follows.
C19_OneAtomPerArchitecture ==
    fpc = "returned" =>
        \A shape \in Shapes :
            input = Compose(shape) => output = OkOf(ExpectedAtoms(shape))

\* C19: the qualified name a:any, with nothing after it, was parsed into
\* one atom named a:any without architecture.
C19_QualifierKeptInName ==
    /\ fpc = "returned"
    /\ input = <<"a", ":", "a", "n", "y">>
    /\ output = OkOf(<<Atom(<<"a", ":", "a", "n", "y">>, None, None, None)>>)

\* The field with ',' in the place of every '|'.
CommasForBars(s) == [i \in 1..Len(s) |-> IF s[i] = "|" THEN "," ELSE s[i]]

\* C20: the parse result records which atoms are alternatives: a field
\* with '|' and the same field with ',' in its place parse differently.
C20_AlternativesRecorded ==
    (fpc = "returned" /\ output.kind = "Ok" /\ Find(input, "|") # 0) =>
        parse_package_relation(CommasForBars(input)) # output

\* C20: the fields 'a | b' and 'a, b' were parsed into the same list.
C20_BarParsedAsComma ==
    /\ fpc = "returned"
    /\ input = <<"a", " ", "|", " ", "b">>
    /\ output.kind = "Ok"
    /\ Len(output.value) = 2
    /\ output = parse_package_relation(<<"a", ",", " ", "b">>)

\* ------------------------------------------------------------------------
\* package.rs: Package::from_stanza on the key-value map parse_stanza
\* gives (keys lower-cased, a key present or absent).  The optional fields
\* copied as plain strings (Source, Section, Description-md5, Homepage,
\* Essential) and the digests other than SHA256 stay absent.

\* usize::MAX of a 64-bit target in decimal.
UsizeMax == <<"1", "8", "4", "4", "6", "7", "4", "4", "0", "7", "3", "7", "0", "9", "5", "5", "1", "6", "1", "5">>

RequiredFields == {"package", "version", "size", "filename", "maintainer", "description"}

\* The dependency fields in the order from_stanza reads them.
RelationFields ==
    <<"depends", "pre-depends", "recommends", "suggests", "breaks", "conflicts",
      "provides", "replaces", "enhances", "built-using">>

RelationKeys == {RelationFields[i] : i \in 1..Len(RelationFields)}

PackageKeys ==
    RequiredFields \cup {"architecture", "sha256", "priority", "installed-size"}
    \cup RelationKeys

\* Package::new: the six values, every other field at its default.
PackageNew(name, version, size, filename, maintainer, description) ==
    [package |-> name, version |-> version,
     link |-> [url |-> filename, size |-> size, hashes |-> NoLinks],
     maintainer |-> maintainer, description |-> description,
     architecture |-> None, priority |-> None, installed_size |-> None,
     relations |-> [k \in RelationKeys |-> <<>>],
     issues |-> <<>>]

\* package.architecture = Some(Architecture::from_str(..)?): never an error.
SetArchitecture(package, kv) ==
    IF kv["architecture"] = None THEN package
    ELSE [package EXCEPT !.architecture = Some(ArchitectureFromStr(kv["architecture"][1]))]

SetSha256(package, kv) ==
    IF kv["sha256"] = None THEN package
    ELSE [package EXCEPT !.link.hashes = Put(@, "Sha256", kv["sha256"][1])]

KeepPriority(package, parsed) ==
    IF parsed.kind = "Ok" THEN [package EXCEPT !.priority = Some(parsed.value)]
    ELSE [package EXCEPT !.issues = Append(@, parsed)]

SetPriority(package, kv) ==
    IF kv["priority"] = None THEN package
    ELSE KeepPriority(package, PriorityFromStr(kv["priority"][1]))

KeepInstalledSize(package, parsed) ==
    IF parsed # None THEN [package EXCEPT !.installed_size = parsed]
    ELSE [package EXCEPT !.issues = Append(@, Err("PackageFormat"))]

SetInstalledSize(package, kv) ==
    IF kv["installed-size"] = None THEN package
    ELSE KeepInstalledSize(package, ParseU32Strict(kv["installed-size"][1]))

\* One dependency field: the parsed list, or the error pushed to issues;
\* a panic of the parser ends the call.
KeepRelation(package, key, parsed) ==
    CASE parsed.kind = "Ok" -> OkOf([package EXCEPT !.relations[key] = parsed.value])
      [] parsed.kind = "Err" -> OkOf([package EXCEPT !.issues = Append(@, parsed)])
      [] OTHER -> PanicResult

SetRelation(r, kv, key) ==
    IF r.kind # "Ok" \/ kv[key] = None THEN r
    ELSE KeepRelation(r.value, key, parse_package_relation(kv[key][1]))

RECURSIVE SetRelations(_, _, _)
SetRelations(r, kv, keys) ==
    IF keys = <<>> THEN r
    ELSE SetRelations(SetRelation(r, kv, Head(keys)), kv, Tail(keys))

\* The part of from_stanza after Package::new.
OptionalFields(package, kv) ==
    SetRelations(
        OkOf(SetInstalledSize(SetPriority(SetSha256(SetArchitecture(package, kv), kv), kv), kv)),
        kv, RelationFields)

\* A parser that takes a Size that is not a number for the size 0.
WithSizeDefaulting(kv, version, size) ==
    IF \E k \in {"filename", "maintainer", "description"} : kv[k] = None
    THEN Err("PackageFormat")
    ELSE OptionalFields(
             PackageNew(kv["package"][1], version[1],
                        IF size = None THEN <<"0">> ELSE size[1],
                        DistroUrl(TheDistro, kv["filename"][1], TRUE)[1],
                        kv["maintainer"][1], kv["description"][1]),
             kv)

\* The parsed size, then Filename, Maintainer and Description.
WithSize(kv, version, size) ==
    IF size = None THEN Err("PackageFormat")
    ELSE IF \E k \in {"filename", "maintainer", "description"} : kv[k] = None
    THEN Err("PackageFormat")
    ELSE OptionalFields(
             PackageNew(kv["package"][1], version[1], size[1],
                        DistroUrl(TheDistro, kv["filename"][1], TRUE)[1],
                        kv["maintainer"][1], kv["description"][1]),
             kv)

WithVersionField(kv, version) ==
    IF version = None THEN Err("VerificationError")
    ELSE IF kv["size"] = None THEN Err("PackageFormat")
    ELSE WithSize(kv, version, ParseUnsigned(kv["size"][1], UsizeMax))

\* Package::from_stanza: the six required fields in the order of the code,
\* then the optional ones.
PackageFromStanza(kv) ==
    IF kv["package"] = None \/ kv["version"] = None THEN Err("PackageFormat")
    ELSE WithVersionField(kv, from_str(kv["version"][1]))


\* The values a required field takes: absent, well-formed, and for Version
\* and Size a text that does not parse.
RequiredStanzas ==
    [package : {None, Some(<<"p">>)},
     version : {None, Some(<<"1">>), Some(<<"x", ":", "1">>)},
     size : {None, Some(<<"7">>), Some(<<"x">>)},
     filename : {None, Some(<<"f">>)},
     maintainer : {None, Some(<<"m">>)},
     description : {None, Some(<<"m">>)}]

ValidRequired ==
    [package |-> Some(<<"p">>), version |-> Some(<<"1">>), size |-> Some(<<"7">>),
     filename |-> Some(<<"f">>), maintainer |-> Some(<<"m">>), description |-> Some(<<"m">>)]

PriorityTexts == {None, Some(<<"e", "x", "t", "r", "a">>), Some(<<"z">>)}

InstalledSizeTexts == {None, Some(<<"3">>), Some(<<"x">>)}

\* A dependency field that parses, one with an unknown relation, one
\* whose closing parenthesis comes before the opening one.
RelationTexts == {<<"a">>, <<"a", " ", "(", "~", " ", "1", ")">>, <<"a", " ", ")", "(">>}

\* The dependency fields of a stanza: all absent but the chosen ones.
RelationChoice(k1, v1, k2, v2) ==
    [k \in RelationKeys |-> IF k = k1 THEN v1 ELSE IF k = k2 THEN v2 ELSE None]

OneRelation ==
    {RelationChoice(k, v, k, v) : k \in RelationKeys, v \in {None} \cup {Some(t) : t \in RelationTexts}}

TwoRelations ==
    {RelationChoice(k1, v1, k2, v2) :
         k1 \in RelationKeys, k2 \in RelationKeys,
         v1 \in {None} \cup {Some(t) : t \in RelationTexts},
         v2 \in {None} \cup {Some(t) : t \in RelationTexts}}

OptionalStanza(arch, sha, priority, installed) ==
    [architecture |-> arch, sha256 |-> sha, priority |-> priority]
    @@ ("installed-size" :> installed)

\* The stanzas handed to from_stanza, with a Priority field from the given
\* texts: any required fields with few optional ones, and valid required
\* fields with more optional ones.
PackageStanzas(priorities) ==
    {req @@ OptionalStanza(None, None, p, None) @@ rel :
         req \in RequiredStanzas, p \in priorities, rel \in OneRelation}
    \cup
    {ValidRequired @@ OptionalStanza(a, h, p, i) @@ rel :
         a \in {None, Some(<<"a", "m", "d", "6", "4">>)}, h \in {None, Some(<<"c">>)},
         p \in priorities, i \in InstalledSizeTexts, rel \in TwoRelations}

InitPackage ==
    /\ IdleVersion
    /\ IdleIndex
    /\ IdleBuild
    /\ IdleRelease
    /\ input \in PackageStanzas(PriorityTexts)
    /\ output = <<>>
    /\ fpc = "called"

\* Package::from_stanza(stanza, distro) returns or panics.
CallPackage ==
    /\ fpc = "called"
    /\ output' = PackageFromStanza(input)
    /\ fpc' = "returned"
    /\ UNCHANGED input
    /\ UNCHANGED <<versionVars, indexVars, buildVars, releaseVars>>

SpecPackage == InitPackage /\ [][CallPackage]_vars

RequiredDefect(kv) ==
    \/ \E k \in RequiredFields : kv[k] = None
    \/ from_str(kv["version"][1]) = None
    \/ ParseUnsigned(kv["size"][1], UsizeMax) = None

\* C14: Package::from_stanza returns an error exactly when one of the six
\* required fields is absent or Version or Size does not parse; a record
\* it returns holds the six values of the stanza, the file name joined to
\* the base URL of the repository.
C14_HardErrorIffRequiredDefect ==
    fpc = "returned" =>
        /\ output.kind = "Err" <=> RequiredDefect(input)
        /\ output.kind = "Ok" =>
               /\ output.value.package = input["package"][1]
               /\ Some(output.value.version) = from_str(input["version"][1])
               /\ Some(output.value.link.size) = ParseUnsigned(input["size"][1], UsizeMax)
               /\ output.value.link.url = join_url(TheDistro.url, input["filename"][1])
               /\ output.value.maintainer = input["maintainer"][1]
               /\ output.value.description = input["description"][1]

\* C14: a stanza whose only defect is a Size that is not a number was
\* rejected, and a stanza with six valid fields gave a record.
C14_SizeNotANumber ==
    /\ fpc = "returned"
    /\ \A k \in RequiredFields : input[k] # None
    /\ from_str(input["version"][1]) # None
    /\ input["size"] = Some(<<"x">>)
    /\ output = Err("PackageFormat")

OptionalKeys == {"priority", "installed-size"} \cup RelationKeys

\* The optional field k of the stanza is present and does not parse.
FailsToParse(kv, k) ==
    /\ kv[k] # None
    /\ CASE k = "priority" -> PriorityFromStr(kv[k][1]).kind # "Ok"
         [] k = "installed-size" -> ParseU32Strict(kv[k][1]) = None
         [] OTHER -> parse_package_relation(kv[k][1]).kind # "Ok"

WithoutFailing(kv) ==
    [k \in DOMAIN kv |-> IF k \in OptionalKeys /\ FailsToParse(kv, k) THEN None ELSE kv[k]]

\* C15: with six valid required fields from_stanza returns a record
\* whatever the optional fields hold: every optional field that fails to
\* parse adds one issue and keeps its default, the rest of the record is
\* what the stanza without the failing fields gives.
C15_OptionalFailuresRecoverable ==
    (fpc = "returned" /\ ~RequiredDefect(input)) =>
        /\ output.kind = "Ok"
        /\ Len(output.value.issues) = Cardinality({k \in OptionalKeys : FailsToParse(input, k)})
        /\ [output.value EXCEPT !.issues = <<>>] = PackageFromStanza(WithoutFailing(input)).value

\* C15: a Depends field whose ')' comes before its '(' made from_stanza
\* panic on a stanza with six valid required fields.
C15_DependsPanics ==
    /\ fpc = "returned"
    /\ ~RequiredDefect(input)
    /\ input["depends"] = Some(<<"a", " ", ")", "(">>)
    /\ output = PanicResult


\* ------------------------------------------------------------------------
\* source.rs: Source::from_stanza on the key-value map of the stanza.  A
\* file block is a list of lines, each a "HEX SIZE NAME" reference, three
\* tokens whose second is not a number, or a line that is not three
\* tokens.  Binary, Section, Homepage, Uploaders, the Vcs fields,
\* Testsuite, Dgit, Standards-Version and Package-List stay absent.

MaxFileLines == 2

SourceRequired == {"format", "package", "version", "maintainer", "directory"}

\* The dependency fields in the order from_stanza reads them.
BuildFields ==
    <<"build-depends", "build-depends-indep", "build-depends-arch",
      "build-conflicts", "build-conflicts-indep", "build-conflicts-arch">>

BuildKeys == {BuildFields[i] : i \in 1..Len(BuildFields)}

\* Source::new: the five values, every other field at its default.
SourceNew(format, package, version, maintainer, directory) ==
    [format |-> format, package |-> package, version |-> version,
     maintainer |-> maintainer, directory |-> directory,
     architecture |-> <<>>, priority |-> None,
     relations |-> [k \in BuildKeys |-> <<>>],
     links |-> NoLinks]

\* Link::form_source: the URL of the file below the directory of the
\* source package, the declared size, no hashes.
form_source(ref, source) ==
    [url |-> DistroUrl(TheDistro, join_url(source.directory, ref.path), TRUE)[1],
     size |-> ref.size, hashes |-> NoLinks]

\* The body of the loop of parse_files for a line that is a reference.
AddFile(source, ref, link, hash_type) ==
    IF link.url \in DOMAIN source.links
    THEN [source EXCEPT !.links = Put(@, link.url, add_hash(@[link.url], ref, hash_type))]
    ELSE [source EXCEPT !.links = Put(@, link.url, add_hash(link, ref, hash_type))]

FileLine(source, ref, hash_type) ==
    IF ref.body # "reference" THEN Err("InvalidPackageMeta")
    ELSE OkOf(AddFile(source, ref, form_source(ref, source), hash_type))

RECURSIVE FileLines(_, _, _)
FileLines(r, lines, hash_type) ==
    IF r.kind # "Ok" \/ lines = <<>> THEN r
    ELSE FileLines(FileLine(r.value, Head(lines), hash_type), Tail(lines), hash_type)

\* Source::parse_files behind the '?' of the previous step.
parse_files(r, files, hash_type, required) ==
    IF r.kind # "Ok" THEN r
    ELSE IF files = None
    THEN IF required THEN Err("InvalidPackageMeta") ELSE r
    ELSE FileLines(r, files[1], hash_type)

\* Architecture: the words of the field, each through Architecture::from_str.
SourceArchitecture(source, kv) ==
    IF kv["architecture"] = None THEN source
    ELSE [source EXCEPT !.architecture =
             MapArchitectures(SplitBy(trim(kv["architecture"][1]), " "))]

\* Priority::from_str(priority)?
KeepSourcePriority(source, parsed) ==
    IF parsed.kind = "Ok" THEN OkOf([source EXCEPT !.priority = Some(parsed.value)])
    ELSE parsed

SourcePriority(source, kv) ==
    IF kv["priority"] = None THEN OkOf(source)
    ELSE KeepSourcePriority(source, PriorityFromStr(kv["priority"][1]))

\* source.build_depends = parse_package_relation(build_depends)?
KeepBuildRelation(source, key, parsed) ==
    IF parsed.kind = "Ok" THEN OkOf([source EXCEPT !.relations[key] = parsed.value])
    ELSE parsed

BuildRelation(r, kv, key) ==
    IF r.kind # "Ok" \/ kv[key] = None THEN r
    ELSE KeepBuildRelation(r.value, key, parse_package_relation(kv[key][1]))

RECURSIVE BuildRelations(_, _, _)
BuildRelations(r, kv, keys) ==
    IF keys = <<>> THEN r
    ELSE BuildRelations(BuildRelation(r, kv, Head(keys)), kv, Tail(keys))

\* The four blocks: Files and Checksums-Sha256 required, the others not.
SourceFiles(r, kv) ==
    parse_files(
        parse_files(
            parse_files(
                parse_files(r, kv["files"], "Md5", TRUE),
                kv["checksums-sha256"], "Sha256", TRUE),
            kv["checksums-sha512"], "Sha512", FALSE),
        kv["checksums-sha1"], "Sha1", FALSE)

\* The part of from_stanza after Source::new.
SourceOptional(source, kv) ==
    SourceFiles(BuildRelations(SourcePriority(SourceArchitecture(source, kv), kv), kv, BuildFields), kv)

SourceWithVersion(kv, version) ==
    IF version = None THEN Err("VerificationError")
    ELSE IF kv["maintainer"] = None \/ kv["directory"] = None THEN Err("InvalidPackageMeta")
    ELSE SourceOptional(
             SourceNew(kv["format"][1], kv["package"][1], version[1],
                       kv["maintainer"][1], kv["directory"][1]),
             kv)

\* Source::from_stanza: the five required fields in the order of the
\* code, the optional fields, then the file blocks.
SourceFromStanza(kv) ==
    IF kv["format"] = None \/ kv["package"] = None \/ kv["version"] = None
    THEN Err("InvalidPackageMeta")
    ELSE SourceWithVersion(kv, from_str(kv["version"][1]))


SourceRequiredStanzas ==
    [format : {None, Some(<<"3">>)},
     package : {None, Some(<<"p">>)},
     version : {None, Some(<<"1">>), Some(<<"x", ":", "1">>)},
     maintainer : {None, Some(<<"m">>)},
     directory : {None, Some(<<"q">>)}]

ValidSourceRequired ==
    [format |-> Some(<<"3">>), package |-> Some(<<"p">>), version |-> Some(<<"1">>),
     maintainer |-> Some(<<"m">>), directory |-> Some(<<"q">>)]

\* The lines of a file block.
References ==
    {[body |-> "reference", path |-> p, size |-> n, digest |-> <<"d">>] :
         p \in {<<"x">>, <<"y">>}, n \in Sizes}

OneReference == [body |-> "reference", path |-> <<"x">>, size |-> 1, digest |-> <<"d">>]

\* The blocks of at most n lines.
Blocks(lineset, n) ==
    {None} \cup UNION {{Some(b) : b \in [1..k -> lineset]} : k \in 0..n}

BuildChoice(k1, v1) == [k \in BuildKeys |-> IF k = k1 THEN v1 ELSE None]

OneBuildRelation ==
    {BuildChoice(k, v) : k \in BuildKeys, v \in {None} \cup {Some(t) : t \in RelationTexts}}

SourceOptionalStanza(arch, priority) == [architecture |-> arch, priority |-> priority]

SourceBlocks(files, sha256, sha512, sha1) ==
    [files |-> files] @@ ("checksums-sha256" :> sha256)
    @@ ("checksums-sha512" :> sha512) @@ ("checksums-sha1" :> sha1)

\* The stanzas handed to from_stanza: any required fields, optional
\* fields and one-line blocks, and valid fields with Files blocks of up
\* to n lines.
SourceStanzas(n) ==
    {req @@ SourceOptionalStanza(None, p) @@ rel @@ SourceBlocks(f, s, None, None) :
         req \in SourceRequiredStanzas, p \in PriorityTexts, rel \in OneBuildRelation,
         f \in {None, Some(<<OneReference>>)},
         s \in {None, Some(<<OneReference>>), Some(<<[body |-> "badsize"]>>)}}
    \cup
    {ValidSourceRequired @@ SourceOptionalStanza(a, None) @@ BuildChoice("build-depends", None)
        @@ SourceBlocks(f, s, t, u) :
         a \in {None, Some(<<"a", "n", "y", " ", "a", "l", "l">>)},
         f \in Blocks(References \cup {[body |-> "garbage"]}, n),
         s \in Blocks(References \cup {[body |-> "badsize"]}, 1),
         t \in Blocks({[OneReference EXCEPT !.size = 2], [body |-> "garbage"]}, 1),
         u \in Blocks({[OneReference EXCEPT !.path = <<"y">>, !.size = 2]}, 1)}

InitSource ==
    /\ IdleVersion
    /\ IdleIndex
    /\ IdleBuild
    /\ IdleRelease
    /\ input \in SourceStanzas(MaxFileLines)
    /\ output = <<>>
    /\ fpc = "called"

\* Source::from_stanza(stanza, distro) returns or panics.
CallSource ==
    /\ fpc = "called"
    /\ output' = SourceFromStanza(input)
    /\ fpc' = "returned"
    /\ UNCHANGED input
    /\ UNCHANGED <<versionVars, indexVars, buildVars, releaseVars>>

SpecSource == InitSource /\ [][CallSource]_vars

BlockKeys == {"files", "checksums-sha256", "checksums-sha512", "checksums-sha1"}

\* A block of the stanza is present and has a line that is not a reference.
MalformedLine(kv) ==
    \E k \in BlockKeys :
        kv[k] # None /\ \E i \in 1..Len(kv[k][1]) : kv[k][1][i].body # "reference"

\* C16: Source::from_stanza returns an error when one of Format, Package,
\* Version, Maintainer, Directory is absent, when Files or
\* Checksums-Sha256 is absent, or when a line of a block is not three
\* tokens with a numeric size; a stanza whose only absences are
\* Checksums-Sha1 and Checksums-Sha512 is not rejected for them.
C16_HardErrors ==
    fpc = "returned" =>
        /\ ((\E k \in SourceRequired \cup {"files", "checksums-sha256"} : input[k] = None)
             \/ MalformedLine(input))
           => output.kind = "Err"
        /\ (input["checksums-sha1"] = None /\ input["checksums-sha512"] = None
               /\ output.kind = "Err")
           => SourceFromStanza([input EXCEPT !["checksums-sha1"] = Some(<<OneReference>>),
                                             !["checksums-sha512"] = Some(<<OneReference>>)]).kind = "Err"

\* C16: a stanza without a Files block whose Build-Depends has ')' before
\* '(' made from_stanza panic instead of returning an error.
C16_PanicBeforeFiles ==
    /\ fpc = "returned"
    /\ \A k \in SourceRequired : input[k] # None
    /\ input["files"] = None
    /\ input["build-depends"] = Some(<<"a", " ", ")", "(">>)
    /\ output = PanicResult

SourceWellFormed(kv) ==
    /\ \A k \in SourceRequired \cup {"files", "checksums-sha256"} : kv[k] # None
    /\ from_str(kv["version"][1]) # None
    /\ ~MalformedLine(kv)

\* C17: in the source parser a Priority or a Build-Depends or
\* Build-Conflicts field that fails to parse does not abort the stanza:
\* with the required fields and blocks present and well-formed a record
\* is returned.
C17_BuildFieldsRecoverable ==
    (fpc = "returned" /\ SourceWellFormed(input)) => output.kind = "Ok"

\* C17: a well-formed stanza with an unknown relation in Build-Depends
\* was rejected with the error of the dependency parser.
C17_BuildDependsAborts ==
    /\ fpc = "returned"
    /\ SourceWellFormed(input)
    /\ input["priority"] = None
    /\ input["build-depends"] = Some(<<"a", " ", "(", "~", " ", "1", ")">>)
    /\ output.kind = "Err"
    /\ output = parse_package_relation(<<"a", " ", "(", "~", " ", "1", ")">>)


\* ------------------------------------------------------------------------
\* Links of a release file and of a source stanza together.

NextLinks == NextRelease \/ CallSource

SpecLinks == (InitRelease \/ InitSource) /\ [][NextLinks]_vars

\* The reference lines of a block of the stanza, with the hash of the block.
BlockRefs(kv, key, hash_type) ==
    IF kv[key] = None THEN <<>>
    ELSE [i \in 1..Len(kv[key][1]) |->
             [path |-> kv[key][1][i].path, size |-> kv[key][1][i].size, hash |-> hash_type]]

\* The lines of the four blocks in the order from_stanza reads them.
SourceRefs(kv) ==
    BlockRefs(kv, "files", "Md5") \o BlockRefs(kv, "checksums-sha256", "Sha256")
    \o BlockRefs(kv, "checksums-sha512", "Sha512") \o BlockRefs(kv, "checksums-sha1", "Sha1")

\* The URL of a file of the source package in directory q of repository h.
ExpectedSourceUrl(path) == <<"h", "/", "q", "/">> \o path

\* The positions of the lines of observed that name the path set names.
Naming(observed, names) == {i \in 1..Len(observed) : observed[i].path \in names}

First(positions) == CHOOSE i \in positions : \A j \in positions : i <= j

\* The link has the size of the first of the lines that name it and a
\* digest for the hash of each of them.
FirstSizeKept(link, observed, positions) ==
    /\ positions # {}
    /\ link.size = observed[First(positions)].size
    /\ \A i \in positions :
          /\ observed[i].hash \in DOMAIN link.hashes
          /\ link.hashes[observed[i].hash] = <<"d">>

SourceLinksKeepFirstSize(kv, source) ==
    \A u \in DOMAIN source.links :
        FirstSizeKept(source.links[u], SourceRefs(kv),
                      Naming(SourceRefs(kv), {p \in {<<"x">>, <<"y">>} : ExpectedSourceUrl(p) = u}))

\* C13: the size of a Link is the size of the first line seen for its
\* URL and never changes: a later line for the URL with another size has
\* its digest recorded, leaves the size as it is, and makes neither
\* from_distro nor Source::from_stanza fail.
C13_SizeFixedAtFirstLine ==
    /\ [](\A u \in DOMAIN rlinks : FirstSizeKept(rlinks[u], refs, RefsOf(u)))
    /\ [][Len(refs') > Len(refs) =>
             /\ released' = released
             /\ \A u \in DOMAIN rlinks : rlinks'[u].size = rlinks[u].size]_vars
    /\ []((fpc = "returned" /\ output.kind = "Ok") => SourceLinksKeepFirstSize(input, output.value))
    /\ []((fpc = "returned" /\ SourceWellFormed(input) /\ input["priority"] = None
             /\ \A k \in BuildKeys : input[k] = None)
           => output.kind = "Ok")

\* C13: from_distro returned a Release after two lines gave different
\* sizes for one URL, and the link has the size of the first.
C13_SecondSizeIgnored ==
    /\ rpc = "done"
    /\ released = Ok
    /\ Len(refs) = 2
    /\ ExpectedUrl(refs[1].path) = ExpectedUrl(refs[2].path)
    /\ refs[1].size # refs[2].size
    /\ refs[1].hash # refs[2].hash
    /\ rlinks[ExpectedUrl(refs[1].path)].size = refs[1].size
    /\ DOMAIN rlinks[ExpectedUrl(refs[1].path)].hashes = {refs[1].hash, refs[2].hash}


\* ------------------------------------------------------------------------
\* Further properties of the index build.

\* C21: PackageIndex::new with the architecture Source returns the
\* caller-misuse error whatever the release lists, before a link is
\* selected and before any HEAD or GET request.
C21_SourceArchitectureRefused ==
    (indexKind = "package" /\ architecture = "Source" /\ bpc # "new") =>
        /\ built = Err("ApiUsage")
        /\ bpc = "done"
        /\ trace = <<"new">>
        /\ heads = <<>>
        /\ selected = None
        /\ fetched = None
        /\ stanzas = 0

\* C21: the constructor refused the architecture Source although the
\* release lists an index of source packages.
C21_RefusedWithListedIndex ==
    /\ indexKind = "package"
    /\ architecture = "Source"
    /\ DOMAIN links # {}
    /\ built = Err("ApiUsage")


\* The number of occurrences of event e in the first n events of the trace.
RECURSIVE CountEvents(_, _)
CountEvents(e, n) ==
    IF n = 0 THEN 0
    ELSE (IF trace[n] = e THEN 1 ELSE 0) + CountEvents(e, n - 1)

\* C28: after a download and verification that succeeded every non-empty
\* stanza has given one stored record or one issue of the index: the
\* records and the issues together are as many as the non-empty stanzas,
\* and a stanza that fails to parse does not end the build.
C28_RecordOrIssuePerStanza ==
    dcResult = "Ok" =>
        /\ StoredRecords + Len(issues) = CountEvents("stanza", Len(trace))
        /\ built.kind \in {"None", "Ok"}

\* C28: from_stanza panicked on the second stanza of an index whose first
\* stanza was stored, and the build ended without an index.
C28_StanzaPanicked ==
    /\ dcResult = "Ok"
    /\ built = Unwound
    /\ StoredRecords = 1
    /\ CountEvents("stanza", Len(trace)) = 2


\* ------------------------------------------------------------------------
\* Further properties of the index engine.

IndexRecords == [package : PackageNames, version : {from_str(v)[1] : v \in IndexVersions}]

\* The step added the record r: the list of its name has r appended and
\* the lists of the other names are as before.
Appended(r) ==
    /\ IndexGetAll(package_map', r.package) = Append(IndexGetAll(package_map, r.package), r)
    /\ \A n \in PackageNames \ {r.package} :
          IndexGetAll(package_map', n) = IndexGetAll(package_map, n)

\* C22: the index starts empty and every add appends its record to the
\* list get_all returns for its name and leaves the other names alone,
\* so get_all(name) is the records added under name in insertion order;
\* package_count is the number of names added; every stored list is
\* non-empty and holds records named as its key; get does not change the
\* index.
C22_IndexHoldsAddedRecords ==
    /\ [](/\ IndexPackageCount(package_map)
               = Cardinality({n \in PackageNames : IndexGetAll(package_map, n) # <<>>})
          /\ \A n \in DOMAIN package_map :
                /\ package_map[n] # <<>>
                /\ \A i \in 1..Len(package_map[n]) : package_map[n][i].package = n
          /\ \A n \in PackageNames \ DOMAIN package_map : IndexGetAll(package_map, n) = <<>>)
    /\ [][package_map' # package_map =>
             /\ StoredRecords' = StoredRecords + 1
             /\ \E r \in IndexRecords : Appended(r)]_vars
    /\ [][lastGet'.called => package_map' = package_map]_vars

\* C22: three records were added, two of them under one name with the
\* greater version first, and get_all returns them in that order.
C22_TwoVersionsInOrder ==
    /\ IndexPackageCount(package_map) = 2
    /\ Len(IndexGetAll(package_map, <<"p">>)) = 2
    /\ IndexGetAll(package_map, <<"p">>)[1].version = from_str(<<"2">>)[1]
    /\ IndexGetAll(package_map, <<"p">>)[2].version = from_str(<<"1">>)[1]
    /\ lastGet.called

\* The versions stored under the name of the last get.
StoredVersions ==
    {IndexGetAll(package_map, lastGet.name)[i].version :
        i \in 1..Len(IndexGetAll(package_map, lastGet.name))}

\* C30: get with an atom that carries no version returns nothing; with an
\* atom that carries a version and no relation it returns a record of the
\* name whose version equals the atom's, if there is one; the name of the
\* atom has no influence on the result.
C30_VersionlessAtomMatchesNothing ==
    (lastGet.called /\ lastGet.version # None) =>
        /\ lastGet.version[1].version = None => lastGet.result = GetNone
        /\ (lastGet.version[1].version # None /\ lastGet.version[1].relation = None) =>
              /\ lastGet.result.kind \in {"None", "Some"}
              /\ lastGet.result.kind = "Some" <=> lastGet.version[1].version[1] \in StoredVersions
              /\ lastGet.result.kind = "Some" =>
                    lastGet.result.pkg = [package |-> lastGet.name,
                                          version |-> lastGet.version[1].version[1]]
        /\ \A n \in PackageNames :
              IndexGet(package_map, lastGet.name,
                       Some([lastGet.version[1] EXCEPT !.name = n])) = lastGet.result

\* C30: get for a name with stored records returned nothing because the
\* atom, though it has a relation, has no version.
C30_NothingForVersionlessAtom ==
    /\ lastGet.called
    /\ lastGet.version # None
    /\ lastGet.version[1].version = None
    /\ lastGet.version[1].relation # None
    /\ IndexGetAll(package_map, lastGet.name) # <<>>
    /\ lastGet.result = GetNone


\* ------------------------------------------------------------------------
\* Version::from_str on one text.

SplitAlphabet == {"a", "1", "0", ":", "-"}

\* Short texts over the alphabet, and texts with an epoch at and beyond
\* the range of u8, with a sign, and with ':' and '-' in the upstream part.
SplitInputs ==
    Strings(SplitAlphabet, MaxLen + 1)
    \cup {<<"2", "5", "5", ":", "1">>,
           <<"2", "5", "6", ":", "1">>,
           <<"+", "1", ":", "1">>,
           <<"-", "1", ":", "1">>,
           <<"0", "1", ":", "a">>,
           <<"1", ":", "2", ".", "0", ".", "1", "2", "-", "1", "-", "1", "u", "b", "u", "n", "t", "u", "1">>,
           <<"1", ":", "a", ":", "b", "-", "c", "-", "d">>,
           <<"a", ":", "1">>,
           <<"1", "a", ":", "1">>,
           <<":", "1">>}

InitSplit ==
    /\ IdleVersion
    /\ IdleIndex
    /\ IdleBuild
    /\ IdleRelease
    /\ input \in SplitInputs
    /\ output = <<>>
    /\ fpc = "called"

\* Version::from_str(version) returns.
CallFromStr ==
    /\ fpc = "called"
    /\ output' = from_str(input)
    /\ fpc' = "returned"
    /\ UNCHANGED input
    /\ UNCHANGED <<versionVars, indexVars, buildVars, releaseVars>>

SpecSplit == InitSplit /\ [][CallFromStr]_vars

\* The positions of the character c in s.
Positions(s, c) == {i \in 1..Len(s) : s[i] = c}

Least(positions) == CHOOSE i \in positions : \A j \in positions : i <= j

Greatest(positions) == CHOOSE i \in positions : \A j \in positions : j <= i

\* The number a text of digits stands for.
RECURSIVE NumberValue(_)
NumberValue(digits) ==
    IF digits = <<>> THEN 0
    ELSE 10 * NumberValue(SubSeq(digits, 1, Len(digits) - 1))
         + (Code(digits[Len(digits)]) - 48)

\* The text without its sign.
DigitsOf(text) == IF text # <<>> /\ Head(text) = "+" THEN Tail(text) ELSE text

\* The text is an unsigned integer as parse::<u8> reads it: digits, or
\* '+' and digits, of a value up to 255.
IsEpochText(text) ==
    /\ DigitsOf(text) # <<>>
    /\ \A i \in 1..Len(DigitsOf(text)) : IsDigit(DigitsOf(text)[i])
    /\ Len(DigitsOf(text)) <= 6
    /\ NumberValue(DigitsOf(text)) <= 255

EpochText(s) == SubSeq(s, 1, Least(Positions(s, ":")) - 1)

Remainder(s) ==
    IF Positions(s, ":") = {} THEN s ELSE SubSeq(s, Least(Positions(s, ":")) + 1, Len(s))

ExpectedUpstream(rest) ==
    IF Positions(rest, "-") = {} THEN rest
    ELSE SubSeq(rest, 1, Greatest(Positions(rest, "-")) - 1)

ExpectedRevision(rest) ==
    IF Positions(rest, "-") = {} THEN None
    ELSE Some(SubSeq(rest, Greatest(Positions(rest, "-")) + 1, Len(rest)))

\* C23: Version::from_str fails exactly when the text before the first
\* ':' is not an unsigned integer in the range of u8; otherwise the epoch
\* is that number, or absent without ':', the revision is the text after
\* the last '-' of the remainder, or absent without '-', and the upstream
\* part is everything between, whatever ':' and '-' it holds.
C23_SplitAtFirstColonLastDash ==
    fpc = "returned" =>
        /\ output = None <=> (Positions(input, ":") # {} /\ ~IsEpochText(EpochText(input)))
        /\ output # None =>
              /\ IF Positions(input, ":") = {} THEN output[1].epoch = None
                 ELSE /\ output[1].epoch # None
                      /\ NumberValue(output[1].epoch[1]) = NumberValue(DigitsOf(EpochText(input)))
              /\ output[1].version = ExpectedUpstream(Remainder(input))
              /\ output[1].revision = ExpectedRevision(Remainder(input))

\* C23: 1:2.0.12-1-1ubuntu1 was split into epoch 1, upstream 2.0.12-1 and
\* revision 1ubuntu1.
C23_UpstreamWithDash ==
    /\ fpc = "returned"
    /\ input = <<"1", ":", "2", ".", "0", ".", "1", "2", "-", "1", "-", "1", "u", "b", "u", "n", "t", "u", "1">>
    /\ output = Some([epoch |-> Some(<<"1">>), version |-> <<"2", ".", "0", ".", "1", "2", "-", "1">>, revision |-> Some(<<"1", "u", "b", "u", "n", "t", "u", "1">>)])


(***************************************************************************)
(* distro.rs: the location of the InRelease file and of the paths below it. *)
(***************************************************************************)

\* Distro::in_release_url; None stands for the InvalidDistro error.
in_release_url(distro) ==
    IF distro.name # None
    THEN Some(join_url(join_url(join_url(distro.url, <<"d", "i", "s", "t", "s">>), distro.name[1]), <<"I", "n", "R", "e", "l", "e", "a", "s", "e">>))
    ELSE IF distro.path # None
         THEN Some(join_url(join_url(distro.url, distro.path[1]), <<"I", "n", "R", "e", "l", "e", "a", "s", "e">>))
    ELSE None

\* Distro::repo
repo(url, name) == [url |-> url, name |-> Some(name), path |-> None]

\* Distro::flat_repo
flat_repo(url, directory) == [url |-> url, name |-> None, path |-> Some(directory)]

RootUrls == {<<"h">>, <<"h", "/">>}

SuiteNames == {<<"n">>, <<"n", "/">>}

FlatPaths == {<<".", "/">>, <<"d">>, <<"/", "d">>, <<"d", "/">>, <<"d", "/", "e">>, <<>>}

IndexPaths == {<<"p">>, <<"/", "p">>, <<".", "/">>, <<"p", "/", "q">>, <<"p", "/">>, <<>>}

NamedOrFlat ==
    {repo(u, n) : u \in RootUrls, n \in SuiteNames}
    \cup {flat_repo(u, d) : u \in RootUrls, d \in FlatPaths}

InitDistro ==
    /\ IdleVersion
    /\ IdleIndex
    /\ IdleBuild
    /\ IdleRelease
    /\ input \in [distro : NamedOrFlat, path : IndexPaths]
    /\ output = <<>>
    /\ fpc = "called"

\* distro.url(path, false) and distro.in_release_url() return.
CallUrl ==
    /\ fpc = "called"
    /\ output' = [url |-> DistroUrl(input.distro, input.path, FALSE),
                  in_release |-> in_release_url(input.distro)]
    /\ fpc' = "returned"
    /\ UNCHANGED input
    /\ UNCHANGED <<versionVars, indexVars, buildVars, releaseVars>>

SpecDistro == InitDistro /\ [][CallUrl]_vars

\* What a path adds behind the '/' of its base: nothing for "./", the
\* path without its leading '/' otherwise.
Joined(path) ==
    IF path = <<".", "/">> THEN <<>>
    ELSE IF path # <<>> /\ Head(path) = "/" THEN Tail(path)
    ELSE path

\* The text with its trailing InRelease replaced by the path.
InReleaseReplaced(text, path) ==
    SubSeq(text, 1, Len(text) - Len(<<"I", "n", "R", "e", "l", "e", "a", "s", "e">>)) \o Joined(path)

\* C24: for a named or a flat distro, url(p, false) is in_release_url()
\* with the trailing InRelease replaced by p, one '/' at the join and
\* "./" adding nothing.
C24_UrlBasedOnInReleaseLocation ==
    fpc = "returned" =>
        /\ output.in_release # None
        /\ EndsWith(output.in_release[1], <<"/">> \o <<"I", "n", "R", "e", "l", "e", "a", "s", "e">>)
        /\ output.url = Some(InReleaseReplaced(output.in_release[1], input.path))

\* C24: the flat distro of path "./" has its InRelease file at h/InRelease
\* and url("p", false) returned h/./p.
C24_FlatDotSlashKept ==
    /\ fpc = "returned"
    /\ input = [distro |-> flat_repo(<<"h">>, <<".", "/">>), path |-> <<"p">>]
    /\ output.in_release = Some(<<"h", "/", "I", "n", "R", "e", "l", "e", "a", "s", "e">>)
    /\ output.url = Some(<<"h", "/", ".", "/", "p">>)


\* The line is handled by the Keywords arm of the match: it is neither
\* blank nor a "---" line, and it is not indented or the section is
\* Keywords already.
HandledAsKeyword(line) ==
    /\ line.kind = "plain"
    /\ ~line.indented \/ section = "Keywords"

\* The line is handled by the hash arm of the match.
HandledAsHash(line) ==
    /\ line.kind = "plain"
    /\ line.indented
    /\ section \in HashSections

\* The section after a line, from the section before it: a hash keyword
\* line gives its hash state, another line that is not indented gives
\* Keywords, every other line keeps the section.
SectionAfter(current, line) ==
    IF line.kind # "plain" \/ line.indented THEN current
    ELSE IF line.content.body = "hash_header" THEN line.content.section
    ELSE "Keywords"

\* The link at the URL gained the digest under the kind and under no
\* other kind, and no other link changed.
RecordedUnder(url, digest, kind) ==
    /\ DOMAIN rlinks' = DOMAIN rlinks \cup {url}
    /\ DOMAIN rlinks'[url].hashes
          = (IF url \in DOMAIN rlinks THEN DOMAIN rlinks[url].hashes ELSE {}) \cup {kind}
    /\ rlinks'[url].hashes[kind] = digest
    /\ \A u \in DOMAIN rlinks \ {url} : rlinks'[u] = rlinks[u]
    /\ \A h \in DOMAIN rlinks'[url].hashes \ {kind} :
          rlinks'[url].hashes[h] = rlinks[url].hashes[h]

\* C25: the section is Keywords before the first line; a line that is not
\* indented is handled in Keywords, a hash keyword line gives the matching
\* hash state, blank and "---" lines and indented lines keep the section;
\* a reference line of a hash block is recorded under the kind of that
\* state, which is therefore the kind of the most recent hash keyword line.
C25_SectionFollowsKeywordLines ==
    /\ [](nlines = 0 => section = "Keywords")
    /\ [][rpc = "lines" =>
             \A line \in LineKinds :
                Line(line) =>
                   /\ section' = SectionAfter(section, line)
                   /\ (line.kind = "plain" /\ ~line.indented) =>
                         /\ rlinks' = rlinks
                         /\ HasColon(line.content) <=> released' = Pending
                   /\ line.kind # "plain" => rlinks' = rlinks
                   /\ (HandledAsHash(line) /\ line.content.body = "reference") =>
                         RecordedUnder(form_release(line.content).url,
                                       line.content.digest, SectionHash(section))]_vars

\* C25: two hash blocks were read and the one path has its digest under
\* MD5 from the first block and under SHA256 from the second.
C25_TwoBlocksTwoKinds ==
    /\ Len(refs) = 2
    /\ refs[1].hash = "Md5"
    /\ refs[2].hash = "Sha256"
    /\ refs[1].path = refs[2].path
    /\ section = "HashSHA256"
    /\ \E u \in DOMAIN rlinks : DOMAIN rlinks[u].hashes = {"Md5", "Sha256"}

\* C26: a line handled in Keywords without ':' makes from_distro return
\* the InvalidReleaseFormat error, indented or not; a line handled in
\* Keywords with ':' and an unknown keyword lets the parse go on with the
\* fields and the links as they were.
C26_ColonlessAbortsUnknownIgnored ==
    [][\A line \in LineKinds :
          (rpc = "lines" /\ HandledAsKeyword(line) /\ Line(line)) =>
             /\ ~HasColon(line.content) =>
                   /\ released' = Err("InvalidReleaseFormat")
                   /\ rpc' = "done"
             /\ (HasColon(line.content) /\ Keyword(line) = "unknown") =>
                   /\ released' = Pending
                   /\ rpc' = "lines"
                   /\ fields' = fields
                   /\ rlinks' = rlinks]_vars

\* C26: an Origin line was read and the second line, handled in Keywords,
\* made from_distro return the InvalidReleaseFormat error.
C26_AbortedAfterKeywordLine ==
    /\ nlines = 2
    /\ fields = {"origin"}
    /\ section = "Keywords"
    /\ refs = <<>>
    /\ released = Err("InvalidReleaseFormat")


\* C29: when both inputs parse, a.cmp(b) returns an ordering: neither the
\* assertion of compare_epoch nor that of compare_version_str is reached.
C29_CmpReturnsAnOrdering ==
    vpc = "compared" => ordAB \in Orderings

\* C29: 1 was compared with 0:1, whose epochs differ as options and agree
\* as numbers, and the comparison panicked in compare_epoch.
C29_EpochAssertionReached ==
    /\ vpc = "compared"
    /\ va = <<"1">>
    /\ vb = <<"0", ":", "1">>
    /\ compare_epoch(from_str(va)[1], from_str(vb)[1]) = "Panic"
    /\ ordAB = "Panic"


(***************************************************************************)
(* util.rs: parse_stanza on the lines of one stanza.                       *)
(***************************************************************************)
MaxStanzaLines == 3

\* kv.insert(key.to_lowercase(), value.clone()) unless the key is empty.
InsertField(st) ==
    IF st.key # <<>> THEN Put(st.kv, to_lowercase(st.key), st.value) ELSE st.kv

\* A line that does not start with ' ': the field read before is stored,
\* and the line is split at its first ':' when it has one.
FieldLine(st, line, pos) ==
    IF pos # 0
    THEN [kv |-> InsertField(st),
          key |-> trim(SubSeq(line, 1, pos - 1)),
          value |-> trim(SubSeq(line, pos + 1, Len(line)))]
    ELSE [st EXCEPT !.kv = InsertField(st)]

\* One turn of the loop over stanza.lines().
StanzaLine(st, line) ==
    IF trim(line) = <<>> THEN st
    ELSE IF Head(line) = " "
         THEN IF st.key = <<>> THEN st
              ELSE [st EXCEPT !.value = st.value \o <<"\n">> \o trim(line)]
    ELSE FieldLine(st, line, Find(line, ":"))

RECURSIVE StanzaLoop(_, _)
StanzaLoop(st, text) ==
    IF text = <<>> THEN st
    ELSE StanzaLoop(StanzaLine(st, Head(text)), Tail(text))

\* parse_stanza on the lines of the stanza.
parse_stanza(text) ==
    InsertField(StanzaLoop([kv |-> EmptyMap, key |-> <<>>, value |-> <<>>], text))

\* The lines the stanzas are made of: field lines with keys that differ
\* in case only, continuation lines led by a blank and by a tab, with and
\* without ':', a line without ':' and a line of blanks.
StanzaLineTexts ==
    {<<"A", ":", " ", "1">>, <<"a", ":", "2">>, <<"B", ":", "3">>, <<" ", "x">>, <<"\t", "y">>, <<"z", "z">>, <<" ">>, <<"\t", "C", ":", " ", "4">>, <<" ", "c", ":", "d">>}

StanzaTexts == UNION {[1..n -> StanzaLineTexts] : n \in 0..MaxStanzaLines}

InitStanza ==
    /\ IdleVersion
    /\ IdleIndex
    /\ IdleBuild
    /\ IdleRelease
    /\ input \in StanzaTexts
    /\ output = <<>>
    /\ fpc = "called"

\* parse_stanza(stanza) returns.
CallParseStanza ==
    /\ fpc = "called"
    /\ output' = parse_stanza(input)
    /\ fpc' = "returned"
    /\ UNCHANGED input
    /\ UNCHANGED <<versionVars, indexVars, buildVars, releaseVars>>

SpecStanza == InitStanza /\ [][CallParseStanza]_vars

IsBlank(line) == \A i \in 1..Len(line) : line[i] \in Whitespace

\* A line beginning with whitespace.
IsContinuation(line) == ~IsBlank(line) /\ Head(line) \in {" ", "\t"}

\* A line that starts a field: not a continuation, and with a ':'.
IsField(line) == ~IsBlank(line) /\ ~IsContinuation(line) /\ Positions(line, ":") # {}

KeyOf(line) == to_lowercase(trim(SubSeq(line, 1, Least(Positions(line, ":")) - 1)))

\* The continuation lines from line i on, up to the next field line, each
\* trimmed and led by a newline; other lines add nothing.
RECURSIVE Continued(_, _)
Continued(text, i) ==
    IF i > Len(text) \/ IsField(text[i]) THEN <<>>
    ELSE (IF IsContinuation(text[i]) THEN <<"\n">> \o trim(text[i]) ELSE <<>>)
         \o Continued(text, i + 1)

\* The value of the field that line i starts.
ValueOf(text, i) ==
    trim(SubSeq(text[i], Least(Positions(text[i], ":")) + 1, Len(text[i])))
    \o Continued(text, i + 1)

\* The lines that start a field with a key.
KeyedLines(text) == {i \in 1..Len(text) : IsField(text[i]) /\ KeyOf(text[i]) # <<>>}

ExpectedStanza(text) ==
    [k \in {KeyOf(text[i]) : i \in KeyedLines(text)} |->
        ValueOf(text, Greatest({i \in KeyedLines(text) : KeyOf(text[i]) = k}))]

\* C27: the map has one entry per key in lower case, the value being that
\* of the last field line of the key: the trimmed text after its first
\* ':' and the trimmed continuation lines that follow it, joined with
\* newlines; lines without ':' and continuation lines before any key
\* add nothing.
C27_StanzaMap ==
    fpc = "returned" => output = ExpectedStanza(input)

\* C27: the stanza "A: 1" with the continuation line "<tab>y" gave a the
\* value 1 and not 1, newline, y.
C27_TabContinuationDropped ==
    /\ fpc = "returned"
    /\ input = <<<<"A", ":", " ", "1">>, <<"\t", "y">>>>
    /\ output = Put(EmptyMap, <<"a">>, <<"1">>)
    /\ ExpectedStanza(input) = Put(EmptyMap, <<"a">>, <<"1", "\n", "y">>)
====
